---- MODULE Spec2Model ----
(***************************************************************************)
(* Model of the Binutils subset of gluppler/HelloGolang: the ELF parser    *)
(* (Projects/Binutils/elf/elf.go) and the ar archive codec                 *)
(* (Projects/Binutils/06_ar.go).                                           *)
(*                                                                         *)
(* Files are sequences of bytes (0..255); a reader is a file together with *)
(* a 0-based position.  Go strings that the code indexes byte-wise are     *)
(* sequences of bytes as well; labels that the code only compares are TLA+ *)
(* strings.  Unsigned fields are naturals; a decoded value of 2^31-1 or     *)
(* more is represented by Huge: the code only compares such fields with    *)
(* each other's ceilings, which lie below Huge, and divides them.          *)
(***************************************************************************)
EXTENDS Integers, Sequences, FiniteSets, TLC

VARIABLES op, input, ret, arFile, arWritten, arRead, disk

vars == <<op, input, ret, arFile, arWritten, arRead, disk>>

----------------------------------------------------------------------------
(* Bytes, readers and byte order                                           *)

Min(a, b) == IF a < b THEN a ELSE b

Max(a, b) == IF a > b THEN a ELSE b

Zeros(n) == [i \in 1..n |-> 0]

\* s[from:] of a Go slice, from 0-based and from <= len(s)
SliceFrom(s, from) == SubSeq(s, from + 1, Len(s))

\* s[from:to] of a Go slice, 0-based, to exclusive
Slice(s, from, to) == SubSeq(s, from + 1, to)

\* r.Read(buf) of an os.File / bytes.Reader positioned at pos, len(buf) = n > 0:
\* n bytes of the buffer (zero where nothing was read), the count and the error
Read(file, pos, n) ==
    LET avail == Max(Len(file) - pos, 0)
        got   == Min(n, avail)
    IN  [n    |-> got,
         data |-> Slice(file, pos, pos + got) \o Zeros(n - got),
         err  |-> IF avail = 0 THEN "EOF" ELSE ""]

\* io.ReadFull(r, buf): all n bytes or an error
ReadFull(file, pos, n) ==
    LET avail == Max(Len(file) - pos, 0)
    IN  [data |-> Slice(file, pos, pos + Min(n, avail)) \o Zeros(n - Min(n, avail)),
         err  |-> IF n = 0 THEN ""
                  ELSE IF avail = 0 THEN "EOF"
                  ELSE IF avail < n THEN "unexpected EOF" ELSE ""]

\* binary.ByteOrder.Uint16/Uint32/Uint64 of b[off:off+k], off 0-based
Uint16(endian, b, off) ==
    IF endian = "BE" THEN b[off + 1] * 256 + b[off + 2]
    ELSE b[off + 1] + b[off + 2] * 256

\* 2^31 - 1
Huge == 32767 * 65536 + 65535

Uint32(endian, b, off) ==
    LET hi == IF endian = "BE" THEN Uint16("BE", b, off) ELSE Uint16("LE", b, off + 2)
        lo == IF endian = "BE" THEN Uint16("BE", b, off + 2) ELSE Uint16("LE", b, off)
    IN  IF hi >= 32768 THEN Huge ELSE hi * 65536 + lo

Uint64(endian, b, off) ==
    LET hi == IF endian = "BE" THEN Uint32("BE", b, off) ELSE Uint32("LE", b, off + 4)
        lo == IF endian = "BE" THEN Uint32("BE", b, off + 4) ELSE Uint32("LE", b, off)
    IN  IF hi # 0 THEN Huge ELSE lo

----------------------------------------------------------------------------
(* elf.go: lookup tables                                                   *)

GetELFType(t) ==
    CASE t = 0 -> "ET_NONE"
      [] t = 1 -> "ET_REL"
      [] t = 2 -> "ET_EXEC"
      [] t = 3 -> "ET_DYN"
      [] t = 4 -> "ET_CORE"
      [] OTHER -> "ET_UNKNOWN(" \o ToString(t) \o ")"

HexDigit(d) ==
    <<"0", "1", "2", "3", "4", "5", "6", "7", "8", "9", "a", "b", "c", "d", "e", "f">>[d + 1]

RECURSIVE Hex(_)
\* fmt's %x of a natural
Hex(n) == IF n < 16 THEN HexDigit(n) ELSE Hex(n \div 16) \o HexDigit(n % 16)

\* fmt's %02x of a natural
Hex02(n) == IF n < 16 THEN "0" \o Hex(n) ELSE Hex(n)

GetMachine(m) ==
    CASE m = 0   -> "EM_NONE"
      [] m = 2   -> "EM_SPARC"
      [] m = 3   -> "EM_386"
      [] m = 8   -> "EM_MIPS"
      [] m = 20  -> "EM_PPC"
      [] m = 40  -> "EM_ARM"
      [] m = 62  -> "EM_X86_64"
      [] m = 183 -> "EM_AARCH64"
      [] OTHER   -> "EM_UNKNOWN(0x" \o Hex02(m) \o ")"

GetOSABI(abi) ==
    CASE abi = 0  -> "ELFOSABI_NONE"
      [] abi = 1  -> "ELFOSABI_HPUX"
      [] abi = 2  -> "ELFOSABI_NETBSD"
      [] abi = 3  -> "ELFOSABI_LINUX"
      [] abi = 6  -> "ELFOSABI_SOLARIS"
      [] abi = 7  -> "ELFOSABI_AIX"
      [] abi = 8  -> "ELFOSABI_IRIX"
      [] abi = 9  -> "ELFOSABI_FREEBSD"
      [] abi = 12 -> "ELFOSABI_OPENBSD"
      [] OTHER    -> "ELFOSABI_UNKNOWN(0x" \o Hex02(abi) \o ")"

GetSymbolType(t) ==
    CASE t = 0  -> "STT_NOTYPE"
      [] t = 1  -> "STT_OBJECT"
      [] t = 2  -> "STT_FUNC"
      [] t = 3  -> "STT_SECTION"
      [] t = 4  -> "STT_FILE"
      [] t = 10 -> "STT_COMMON"
      [] t = 13 -> "STT_TLS"
      [] OTHER  -> "STT_UNKNOWN(" \o ToString(t) \o ")"

GetSymbolBinding(b) ==
    CASE b = 0 -> "STB_LOCAL"
      [] b = 1 -> "STB_GLOBAL"
      [] b = 2 -> "STB_WEAK"
      [] OTHER -> "STB_UNKNOWN(" \o ToString(b) \o ")"

----------------------------------------------------------------------------
(* elf.go: ReadCString                                                     *)

RECURSIVE ReadCStringFrom(_, _)
\* the loop of ReadCString from index i (0-based)
ReadCStringFrom(data, i) ==
    IF i >= Len(data) THEN data
    ELSE IF data[i + 1] = 0 THEN Slice(data, 0, i)
    ELSE ReadCStringFrom(data, i + 1)

ReadCString(data) == ReadCStringFrom(data, 0)

----------------------------------------------------------------------------
(* elf.go: the model (type ELF) and the parser                             *)

\* the ELFHeader value of ParseELF: only Magic and Class are ever assigned
ELFHeader ==
    [Magic |-> <<0, 0, 0, 0>>, Class |-> 0, Data |-> 0, ShOff64 |-> 0,
     ShNum |-> 0, ShStrndx |-> 0]

\* &ELF{}; Symbols is a slice of len entries whose first Len(elems) entries
\* are elems and whose other entries are the zero Symbol
ELF ==
    [Class |-> "", Data |-> "", Version |-> 0, OSABI |-> "", Type |-> "",
     Machine |-> "", Entry |-> 0, Header |-> ELFHeader, Sections |-> <<>>,
     Symbols |-> [len |-> 0, elems |-> <<>>], StringTable |-> <<>>]

Symbol ==
    [Name |-> <<>>, Value |-> 0, Size |-> 0, Info |-> 0, Other |-> 0,
     Shndx |-> 0, Type |-> "", Binding |-> ""]

MaxSections == 10000

MaxTableSize == 104857600

MaxSymbols == 100000

RECURSIVE FormatDecimal(_)
\* fmt's %d of a natural, as bytes
FormatDecimal(n) ==
    IF n < 10 THEN <<48 + n>> ELSE Append(FormatDecimal(n \div 10), 48 + (n % 10))

\* fmt.Sprintf("section_%d", i)
SectionPlaceholderName(i) == <<115, 101, 99, 116, 105, 111, 110, 95>> \o FormatDecimal(i)

\* one iteration of the section-header loop for the bytes shBytes
DecodeSection(class, endian, shBytes, i) ==
    IF class = "ELF32"
    THEN [Name |-> SectionPlaceholderName(i),
          Type |-> Uint32(endian, shBytes, 4),
          Flags |-> Uint32(endian, shBytes, 8),
          Addr |-> Uint32(endian, shBytes, 12),
          Offset |-> Uint32(endian, shBytes, 16),
          Size |-> Uint32(endian, shBytes, 20),
          Link |-> Uint32(endian, shBytes, 24),
          Info |-> Uint32(endian, shBytes, 28),
          AddrAlign |-> Uint32(endian, shBytes, 32),
          EntSize |-> Uint32(endian, shBytes, 36),
          Data |-> <<>>]
    ELSE [Name |-> SectionPlaceholderName(i),
          Type |-> Uint32(endian, shBytes, 4),
          Flags |-> Uint64(endian, shBytes, 8),
          Addr |-> Uint64(endian, shBytes, 16),
          Offset |-> Uint64(endian, shBytes, 24),
          Size |-> Uint64(endian, shBytes, 32),
          Link |-> Uint32(endian, shBytes, 40),
          Info |-> Uint32(endian, shBytes, 44),
          AddrAlign |-> Uint64(endian, shBytes, 48),
          EntSize |-> Uint64(endian, shBytes, 56),
          Data |-> <<>>]

SectionHeaderSize(class) == IF class = "ELF32" THEN 40 ELSE 64

RECURSIVE ReadSectionHeaders(_, _, _, _, _, _, _)
\* the section-header loop from iteration i with the reader at pos
ReadSectionHeaders(file, pos, class, endian, i, shNum, acc) ==
    IF i >= shNum THEN [err |-> "", sections |-> acc]
    ELSE LET rd == Read(file, pos, SectionHeaderSize(class))
         IN  IF rd.err # ""
             THEN [err |-> "failed to read section header", sections |-> acc]
             ELSE ReadSectionHeaders(file, pos + rd.n, class, endian, i + 1, shNum,
                                     Append(acc, DecodeSection(class, endian, rd.data, i)))

\* the offset the "Update section names" loop takes for one section: the
\* first four bytes of the name the section has at that point
SectionNameOffset(endian, section) == Uint32(endian, section.Name, 0)

\* a lookup without the guard on the offset
LookupAtUnguarded(table, offset) == <<offset>>

\* the offsets at which a name lookup slices its table: offset when the
\* guard "offset < len(table)" lets the lookup happen, nothing otherwise
LookupAt(table, offset) == IF offset < Len(table) THEN <<offset>> ELSE <<>>

\* the "Update section names" loop body for one section
UpdateSectionName(endian, stringTable, section) ==
    LET at == LookupAt(stringTable, SectionNameOffset(endian, section))
    IN  IF at # <<>>
        THEN [section EXCEPT !.Name = ReadCString(SliceFrom(stringTable, at[1]))]
        ELSE section

\* what parseSections leaves: the error, the elf as the call leaves it, the
\* lengths handed to make() for the section list and the string table
\* (-1: not allocated), and the name lookups made
SectionsResult(err, elf, allocSections, allocStringTable, lookups) ==
    [err |-> err, elf |-> elf, allocSections |-> allocSections,
     allocStringTable |-> allocStringTable, lookups |-> lookups]

\* parseSections from "Update section names" on, stringTable read
UpdateSectionNames(elf, endian, stringTable) ==
    SectionsResult("",
        [elf EXCEPT !.StringTable = stringTable,
                    !.Sections = [i \in 1..Len(elf.Sections) |->
                                    UpdateSectionName(endian, stringTable, elf.Sections[i])]],
        elf.Header.ShNum, Len(stringTable),
        [i \in 1..Len(elf.Sections) |->
            [at |-> LookupAt(stringTable, SectionNameOffset(endian, elf.Sections[i])),
             len |-> Len(stringTable)]])

\* parseSections from "strSection := ..." on
ReadStringTable(file, elf, endian, strSection) ==
    IF ~(strSection.Offset > 0 /\ strSection.Size > 0)
    THEN SectionsResult("", elf, elf.Header.ShNum, -1, <<>>)
    ELSE IF strSection.Size > MaxTableSize
    THEN SectionsResult("string table too large", elf, elf.Header.ShNum, -1, <<>>)
    ELSE UpdateSectionNames(elf, endian,
                            Read(file, strSection.Offset, strSection.Size).data)

\* parseSections after the section-header loop, whose outcome is loop
AfterSectionHeaders(file, elf, endian, loop) ==
    IF loop.err # ""
    THEN SectionsResult(loop.err, [elf EXCEPT !.Sections = loop.sections],
                        elf.Header.ShNum, -1, <<>>)
    ELSE IF ~(elf.Header.ShStrndx < elf.Header.ShNum)
    THEN SectionsResult("", [elf EXCEPT !.Sections = loop.sections],
                        elf.Header.ShNum, -1, <<>>)
    ELSE ReadStringTable(file, [elf EXCEPT !.Sections = loop.sections], endian,
                         loop.sections[elf.Header.ShStrndx + 1])

\* parseSections without the ceiling on the section count
parseSectionsNoCeiling(file, elf, endian) ==
    IF elf.Header.ShOff64 = 0 THEN SectionsResult("", elf, -1, -1, <<>>)
    ELSE IF elf.Header.ShNum = 0
    THEN SectionsResult("invalid section count", elf, -1, -1, <<>>)
    ELSE AfterSectionHeaders(file, elf, endian,
            ReadSectionHeaders(file, elf.Header.ShOff64, elf.Class, endian, 0,
                               elf.Header.ShNum, <<>>))

\* parseSections(r, elf, endian)
parseSections(file, elf, endian) ==
    IF elf.Header.ShOff64 = 0 THEN SectionsResult("", elf, -1, -1, <<>>)
    ELSE IF elf.Header.ShNum = 0 \/ elf.Header.ShNum > MaxSections
    THEN SectionsResult("invalid section count", elf, -1, -1, <<>>)
    ELSE AfterSectionHeaders(file, elf, endian,
            ReadSectionHeaders(file, elf.Header.ShOff64, elf.Class, endian, 0,
                               elf.Header.ShNum, <<>>))

RECURSIVE FirstOfType(_, _, _, _)
\* index (1-based) of the first section from index i on with the given Type
\* and, when anyLink is false, the given Link; 0 when there is none: the
\* "for i := range elf.Sections { if ... { break } }" searches
FirstOfType(sections, i, type, link) ==
    IF i > Len(sections) THEN 0
    ELSE IF sections[i].Type = type /\ (link = -1 \/ sections[i].Link = link) THEN i
    ELSE FirstOfType(sections, i + 1, type, link)

SymbolSize(class) == IF class = "ELF32" THEN 16 ELSE 24

\* the name lookup of the symbol loop
SymbolName(strtab, at) ==
    IF at # <<>> THEN ReadCString(SliceFrom(strtab, at[1])) ELSE <<>>

\* the fields of one symbol: the 16-byte and the 24-byte layout
SymbolFields(class, endian, symBytes, name) ==
    IF class = "ELF32"
    THEN [Name |-> name,
          Value |-> Uint32(endian, symBytes, 4),
          Size |-> Uint32(endian, symBytes, 8),
          Info |-> symBytes[13],
          Other |-> symBytes[14],
          Shndx |-> Uint16(endian, symBytes, 14)]
    ELSE [Name |-> name,
          Info |-> symBytes[5],
          Other |-> symBytes[6],
          Shndx |-> Uint16(endian, symBytes, 6),
          Value |-> Uint64(endian, symBytes, 8),
          Size |-> Uint64(endian, symBytes, 16)]

\* the end of the symbol loop body: Type and Binding from Info
WithTypeAndBinding(raw) ==
    [Name |-> raw.Name, Value |-> raw.Value, Size |-> raw.Size, Info |-> raw.Info,
     Other |-> raw.Other, Shndx |-> raw.Shndx,
     Type |-> GetSymbolType(raw.Info % 16),
     Binding |-> GetSymbolBinding((raw.Info \div 16) % 16)]

\* one iteration of the symbol loop for the bytes symBytes
DecodeSymbol(class, endian, strtab, symBytes) ==
    WithTypeAndBinding(
        SymbolFields(class, endian, symBytes,
                     SymbolName(strtab, LookupAt(strtab, Uint32(endian, symBytes, 0)))))

RECURSIVE ReadSymbols(_, _, _, _, _, _, _, _)
\* the symbol loop from iteration i with the reader at pos; a failed read
\* leaves the loop.  Each entry: the symbol, the lookup made and the table length
ReadSymbols(file, pos, class, endian, strtab, i, numSymbols, acc) ==
    IF i >= numSymbols \/ Read(file, pos, SymbolSize(class)).err # "" THEN acc
    ELSE ReadSymbols(file, pos + Read(file, pos, SymbolSize(class)).n, class, endian,
                     strtab, i + 1, numSymbols,
                     Append(acc,
                            [sym |-> DecodeSymbol(class, endian, strtab,
                                                  Read(file, pos, SymbolSize(class)).data),
                             at |-> LookupAt(strtab,
                                      Uint32(endian, Read(file, pos, SymbolSize(class)).data, 0)),
                             len |-> Len(strtab)]))

\* what parseSymbols leaves: the error, the elf as the call leaves it, the
\* index (1-based, 0: none) of the string table used, the table read and
\* the lookups made in it
SymbolsResult(err, elf, strtabIndex, strtab, lookups) ==
    [err |-> err, elf |-> elf, strtabIndex |-> strtabIndex, strtab |-> strtab,
     lookups |-> lookups]

\* parseSymbols after the symbol loop, whose outcome is loop
AfterSymbols(elf, numSymbols, strtabIndex, strtab, loop) ==
    SymbolsResult("",
        [elf EXCEPT !.Symbols = [len |-> numSymbols,
                                 elems |-> [i \in 1..Len(loop) |-> loop[i].sym]]],
        strtabIndex, strtab,
        [i \in 1..Len(loop) |-> [at |-> loop[i].at, len |-> loop[i].len]])

\* parseSymbols from "Read symbols" on, the reader at pos
SymbolLoop(file, elf, endian, numSymbols, strtabIndex, strtab, pos) ==
    AfterSymbols(elf, numSymbols, strtabIndex, strtab,
                 ReadSymbols(file, pos, elf.Class, endian, strtab, 0, numSymbols, <<>>))

\* parseSymbols with the string table section found: read it, the reader
\* stays behind the bytes read
WithStrtab(file, elf, endian, numSymbols, strtabIndex, rd) ==
    SymbolLoop(file, elf, endian, numSymbols, strtabIndex, rd.data,
               elf.Sections[strtabIndex].Offset + rd.n)

\* parseSymbols from "Find string table for symbol names" on; the reader is
\* at the symbol table
FindStrtab(file, elf, endian, symtabSection, numSymbols, strtabIndex) ==
    IF strtabIndex # 0 /\ elf.Sections[strtabIndex].Size > 0
    THEN IF elf.Sections[strtabIndex].Size > MaxTableSize
         THEN SymbolsResult("string table too large",
                            [elf EXCEPT !.Symbols = [len |-> numSymbols, elems |-> <<>>]],
                            strtabIndex, <<>>, <<>>)
         ELSE WithStrtab(file, elf, endian, numSymbols, strtabIndex,
                         Read(file, elf.Sections[strtabIndex].Offset,
                              elf.Sections[strtabIndex].Size))
    ELSE SymbolLoop(file, elf, endian, numSymbols, 0, <<>>, symtabSection.Offset)

\* numSymbols of parseSymbols: the declared count, cut to the ceiling
NumSymbols(symtabSection) ==
    IF symtabSection.Size \div symtabSection.EntSize > MaxSymbols THEN MaxSymbols
    ELSE symtabSection.Size \div symtabSection.EntSize

\* parseSymbols with the symbol table section found
WithSymtab(file, elf, endian, symtabSection) ==
    IF symtabSection.Size = 0 \/ symtabSection.EntSize = 0
    THEN SymbolsResult("", elf, 0, <<>>, <<>>)
    ELSE IF symtabSection.Size > MaxTableSize
    THEN SymbolsResult("symbol table too large", elf, 0, <<>>, <<>>)
    ELSE FindStrtab(file, elf, endian, symtabSection, NumSymbols(symtabSection),
                    FirstOfType(elf.Sections, 1, 3, symtabSection.Info))

\* parseSymbols(r, elf, endian)
parseSymbols(file, elf, endian) ==
    IF FirstOfType(elf.Sections, 1, 2, -1) = 0 THEN SymbolsResult("", elf, 0, <<>>, <<>>)
    ELSE WithSymtab(file, elf, endian, elf.Sections[FirstOfType(elf.Sections, 1, 2, -1)])

\* what ParseELF returns: the error ("" for nil) and the model (<<>> for nil,
\* else <<elf>>)
ParseResult(err, elf) == [err |-> err, elf |-> elf]

\* ParseELF from "Parse sections" on: a parseSymbols error is dropped
ParseBody(file, endian, sec) ==
    IF sec.err # "" THEN ParseResult("failed to parse sections", <<>>)
    ELSE ParseResult("", <<parseSymbols(file, sec.elf, endian).elf>>)

\* the header fields ParseELF decodes from headerBytes for its class
DecodeHeader(class, endian, headerBytes) ==
    [ELF EXCEPT
       !.Class = IF class = 1 THEN "ELF32" ELSE "ELF64",
       !.Type = GetELFType(Uint16(endian, headerBytes, 16)),
       !.Machine = GetMachine(Uint16(endian, headerBytes, 18)),
       !.Version = Uint32(endian, headerBytes, 20),
       !.Entry = IF class = 1 THEN Uint32(endian, headerBytes, 24)
                 ELSE Uint64(endian, headerBytes, 24)]

\* ParseELF from "Parse class" on
ParseHeader(file, header, endian, headerBytes) ==
    IF header.Class # 1 /\ header.Class # 2 THEN ParseResult("invalid ELF class", <<>>)
    ELSE IF header.Data # 1 /\ header.Data # 2
    THEN ParseResult("invalid data encoding", <<>>)
    ELSE ParseBody(file, endian,
            parseSections(file,
                [DecodeHeader(header.Class, endian, headerBytes) EXCEPT
                   !.Data = IF header.Data = 1 THEN "Little Endian" ELSE "Big Endian",
                   !.OSABI = GetOSABI(headerBytes[8]),
                   !.Header = header],
                endian))

\* the byte order ParseELF selects
Endian(header) == IF header.Data = 2 THEN "BE" ELSE "LE"

\* ParseELF with Magic and Class read into header
WithHeader(file, header) ==
    ParseHeader(file, header, Endian(header), Read(file, 4, 64).data)

\* ParseELF(r)
ParseELF(file) ==
    IF Len(file) < 4 THEN ParseResult("failed to read magic", <<>>)
    ELSE IF Slice(file, 0, 4) # <<127, 69, 76, 70>>
    THEN ParseResult("invalid ELF magic", <<>>)
    ELSE IF Len(file) < 5 THEN ParseResult("failed to read class", <<>>)
    ELSE WithHeader(file, [ELFHeader EXCEPT !.Magic = Slice(file, 0, 4),
                                            !.Class = file[5]])

----------------------------------------------------------------------------
(* Synthetic ELF files in the standard ELF32/ELF64 layouts: the inputs     *)

MaxSectionCount == 4

MaxSymbolCount == 2

Put16(e, v) == IF e = "BE" THEN <<v \div 256, v % 256>> ELSE <<v % 256, v \div 256>>

Put32(e, v) ==
    IF e = "BE" THEN Put16(e, v \div 65536) \o Put16(e, v % 65536)
    ELSE Put16(e, v % 65536) \o Put16(e, v \div 65536)

Put64(e, v) == IF e = "BE" THEN Zeros(4) \o Put32(e, v) ELSE Put32(e, v) \o Zeros(4)

\* a class-wide field: 4 bytes in ELF32, 8 bytes in ELF64
PutWord(class, e, v) == IF class = 1 THEN Put32(e, v) ELSE Put64(e, v)

Order(data) == IF data = 2 THEN "BE" ELSE "LE"

ClassName(class) == IF class = 1 THEN "ELF32" ELSE "ELF64"

EhdrSize(class) == IF class = 1 THEN 52 ELSE 64

\* the file header: e_ident, then type, machine, version, entry, phoff, shoff,
\* flags, ehsize, phentsize, phnum, shentsize, shnum, shstrndx
EncodeHeader(class, data, type, machine, version, entry, shoff, shnum, shstrndx) ==
    LET e == Order(data)
    IN  <<127, 69, 76, 70, class, data, 1, 0>> \o Zeros(8)
        \o Put16(e, type) \o Put16(e, machine) \o Put32(e, version)
        \o PutWord(class, e, entry) \o PutWord(class, e, 0) \o PutWord(class, e, shoff)
        \o Put32(e, 0) \o Put16(e, EhdrSize(class))
        \o Put16(e, IF class = 1 THEN 32 ELSE 56) \o Put16(e, 0)
        \o Put16(e, SectionHeaderSize(ClassName(class))) \o Put16(e, shnum)
        \o Put16(e, shstrndx)

\* one section header: name, type, flags, addr, offset, size, link, info,
\* addralign, entsize
EncodeSectionHeader(class, e, sh) ==
    Put32(e, sh.name) \o Put32(e, sh.type) \o PutWord(class, e, 0)
    \o PutWord(class, e, sh.addr) \o PutWord(class, e, sh.offset)
    \o PutWord(class, e, sh.size) \o Put32(e, sh.link) \o Put32(e, sh.info)
    \o PutWord(class, e, 1) \o PutWord(class, e, sh.entsize)

\* one symbol-table entry (the field order differs by class)
EncodeSymbol(class, e, sym) ==
    IF class = 1
    THEN Put32(e, sym.name) \o Put32(e, sym.value) \o Put32(e, sym.size)
         \o <<sym.info, 0>> \o Put16(e, sym.shndx)
    ELSE Put32(e, sym.name) \o <<sym.info, 0>> \o Put16(e, sym.shndx)
         \o Put64(e, sym.value) \o Put64(e, sym.size)

RECURSIVE Flatten(_)
Flatten(ss) == IF ss = <<>> THEN <<>> ELSE Head(ss) \o Flatten(Tail(ss))

\* a string table of n one-letter names: 0, c1, 0, c2, 0, ...; name k is at 2k-1
LetterTable(first, n) ==
    <<0>> \o Flatten([k \in 1..n |-> <<first + k - 1, 0>>])

\* the name of entry k of LetterTable(first, n)
LetterName(first, k) == <<first + k - 1>>

\* entry k (0-based) of the symbol table: the null symbol, then global
\* functions named a, b, ...
LogicalSymbol(k) ==
    IF k = 0 THEN [name |-> 0, value |-> 0, size |-> 0, info |-> 0, shndx |-> 0]
    ELSE [name |-> 2 * k - 1, value |-> 16 * k, size |-> 4, info |-> 18, shndx |-> 4]

\* The sections of a synthetic file: 0 null, then the section-name table, the
\* symbol-name table (in the order strFirst says), the symbol table linked
\* to the symbol-name table, then program sections.  The file is
\* header | section headers | section-name table | symbol-name table |
\* symbol table, so that the symbol table ends the file.
ShstrIndex(d) == IF d.nsec < 2 THEN 0 ELSE IF d.strFirst /\ d.nsec >= 3 THEN 2 ELSE 1

StrIndex(d) == IF d.strFirst THEN 1 ELSE 2

ShdrsOffset(d) == EhdrSize(d.class)

ShstrOffset(d) == ShdrsOffset(d) + d.nsec * SectionHeaderSize(ClassName(d.class))

ShstrSize(d) == 1 + 2 * d.nsec

StrOffset(d) == ShstrOffset(d) + ShstrSize(d)

StrSize(d) == 1 + 2 * d.nsym

SymOffset(d) == StrOffset(d) + StrSize(d)

\* what the headers declare, where a hostile variant declares something else
\* than the file holds
DeclaredShnum(d) == IF d.variant = "sections" THEN MaxSections + 1 ELSE d.nsec

DeclaredShstrSize(d) == IF d.variant = "shstrtab" THEN MaxTableSize + 1 ELSE ShstrSize(d)

DeclaredSymCount(d) ==
    CASE d.variant = "symbols"   -> MaxSymbols + 1
      [] d.variant = "truncated" -> d.nsym + 2
      [] OTHER                   -> d.nsym

LogicalSection(d, i) ==
    LET blank == [name |-> 2 * i - 1, type |-> 1, addr |-> 4096 * i, offset |-> 0,
                  size |-> 0, link |-> 0, info |-> 0, entsize |-> 0]
    IN  CASE i = 0 -> [blank EXCEPT !.name = 0, !.type = 0, !.addr = 0]
          [] i # 0 /\ i = ShstrIndex(d) ->
                [blank EXCEPT !.type = 3, !.addr = 0, !.offset = ShstrOffset(d),
                              !.size = DeclaredShstrSize(d)]
          [] i # 0 /\ i # ShstrIndex(d) /\ i = StrIndex(d) ->
                [blank EXCEPT !.type = 3, !.addr = 0, !.offset = StrOffset(d),
                              !.size = StrSize(d)]
          [] i = 3 ->
                [blank EXCEPT !.type = 2, !.addr = 0, !.offset = SymOffset(d),
                              !.size = DeclaredSymCount(d) * SymbolSize(ClassName(d.class)),
                              !.link = StrIndex(d), !.info = d.info,
                              !.entsize = SymbolSize(ClassName(d.class))]
          [] OTHER -> blank

\* the bytes of the synthetic file d
EncodeFile(d) ==
    LET e == Order(d.data)
    IN  EncodeHeader(d.class, d.data, d.type, d.machine, d.version, d.entry,
                     IF d.nsec = 0 THEN 0 ELSE ShdrsOffset(d), DeclaredShnum(d),
                     ShstrIndex(d))
        \o Flatten([i \in 1..d.nsec |-> EncodeSectionHeader(d.class, e, LogicalSection(d, i - 1))])
        \o (IF d.nsec >= 2 THEN LetterTable(65, d.nsec) ELSE <<>>)
        \o (IF d.nsec >= 3 THEN LetterTable(97, d.nsym) ELSE <<>>)
        \o Flatten([k \in 1..d.nsym |-> EncodeSymbol(d.class, e, LogicalSymbol(k - 1))])

\* the descriptions of the synthetic files: a well-formed file ("ok"), a file
\* whose header declares more than it holds ("sections", "shstrtab",
\* "symbols", "truncated"), and files broken in their first bytes
Variants ==
    {"ok", "sections", "shstrtab", "symbols", "truncated",
     "cut3", "cut4", "magic", "class", "data"}

BrokenVariants == {"cut3", "cut4", "magic", "class", "data"}

Descs ==
    {d \in [class : {1, 2}, data : {1, 2}, type : {1, 2}, machine : {3, 62},
            version : {1}, entry : {0, 4198400}, nsec : 0..MaxSectionCount,
            nsym : 0..MaxSymbolCount, strFirst : BOOLEAN, info : {0, 1},
            variant : Variants] :
        /\ d.nsym > 0 => d.nsec >= 4
        /\ d.nsec < 3 => ~d.strFirst
        /\ d.nsec < 4 => d.info = 0
        /\ d.variant = "shstrtab" => d.nsec >= 2
        /\ d.variant \in {"symbols", "truncated"} => d.nsec >= 4
        /\ d.variant \in BrokenVariants => d.nsec = 0 /\ d.type = 2 /\ d.entry = 0}

\* the bytes of the input file described by d
Break(variant, f) ==
    CASE variant = "cut3"  -> SubSeq(f, 1, 3)
      [] variant = "cut4"  -> SubSeq(f, 1, 4)
      [] variant = "magic" -> [f EXCEPT ![2] = 70]
      [] variant = "class" -> [f EXCEPT ![5] = 3]
      [] variant = "data"  -> [f EXCEPT ![6] = 3]
      [] OTHER             -> f

File(d) == Break(d.variant, EncodeFile(d))

\* the data of TestParseELF (its e_ident is one byte short of the standard 16)
TestParseELFData ==
    <<127, 69, 76, 70, 2, 1, 1, 0>> \o Zeros(7)
    \o <<2, 0, 62, 0, 1, 0, 0, 0>> \o Zeros(8) \o Zeros(8) \o Zeros(8) \o Zeros(4)
    \o <<64, 0, 56, 0, 0, 0, 64, 0, 0, 0, 0, 0>>

\* the model handed to parseSections when the header fields that
\* parseSections reads hold what the file header of d declares
ModelOf(d) ==
    [ELF EXCEPT !.Class = ClassName(d.class),
                !.Header = [Magic |-> <<127, 69, 76, 70>>, Class |-> d.class,
                            Data |-> d.data,
                            ShOff64 |-> IF d.nsec = 0 THEN 0 ELSE ShdrsOffset(d),
                            ShNum |-> DeclaredShnum(d), ShStrndx |-> ShstrIndex(d)]]

\* the arguments of ReadCString: byte strings over {0, 'a', 'b'}
MaxStringLen == 3

ByteStrings == UNION {[1..n -> {0, 97, 98}] : n \in 0..MaxStringLen}

----------------------------------------------------------------------------
(* The state machine of the parser: every call is one step of a fresh       *)
(* invocation (the tools share no state across invocations)                *)

NoCall == [none |-> TRUE]

\* the files of the transformer tools and of the linker, by path: none yet
NoFiles == [path \in {} |-> <<>>]

Init ==
    /\ op = "init"
    /\ input = NoCall
    /\ ret = NoCall
    /\ arFile = <<>>
    /\ arWritten = <<>>
    /\ arRead = NoCall
    /\ disk = NoFiles

\* ParseELF on a synthetic file
ParseELFOn(d, file) ==
    /\ op = "init"
    /\ op' = "ParseELF"
    /\ input' = [d |-> d, file |-> file]
    /\ ret' = ParseELF(file)
    /\ UNCHANGED <<arFile, arWritten, arRead, disk>>

ParseELFCall == op = "init" /\ \E d \in Descs : ParseELFOn(d, File(d))

\* ParseELF on the data of TestParseELF
ParseELFTestCall ==
    \E elfData \in {TestParseELFData} :
        /\ op = "init"
        /\ op' = "TestParseELF"
        /\ input' = [file |-> elfData]
        /\ ret' = ParseELF(elfData)
        /\ UNCHANGED <<arFile, arWritten, arRead, disk>>

\* parseSections on a synthetic file and the model carrying its header
ParseSectionsOn(d, file) ==
    /\ op = "init"
    /\ d.variant \notin BrokenVariants
    /\ op' = "parseSections"
    /\ input' = [d |-> d, file |-> file]
    /\ ret' = parseSections(file, ModelOf(d), Order(d.data))
    /\ UNCHANGED <<arFile, arWritten, arRead, disk>>

ParseSectionsCall == op = "init" /\ \E d \in Descs : ParseSectionsOn(d, File(d))

\* parseSymbols on the model a successful parseSections left, as in ParseELF
ParseSymbolsCall ==
    /\ op = "parseSections"
    /\ ret.err = ""
    /\ op' = "parseSymbols"
    /\ input' = input
    /\ ret' = parseSymbols(input.file, ret.elf, Order(input.d.data))
    /\ UNCHANGED <<arFile, arWritten, arRead, disk>>

\* ReadCString on a byte string
ReadCStringCall ==
    \E data \in ByteStrings :
        /\ op = "init"
        /\ op' = "ReadCString"
        /\ input' = [data |-> data]
        /\ ret' = [str |-> ReadCString(data)]
        /\ UNCHANGED <<arFile, arWritten, arRead, disk>>

NextELF ==
    \/ ParseELFCall
    \/ ParseELFTestCall
    \/ ParseSectionsCall
    \/ ParseSymbolsCall
    \/ ReadCStringCall

SpecELF == Init /\ [][NextELF]_vars

----------------------------------------------------------------------------
(* Claims about the parser                                                 *)

\* the well-formed 64-byte ELF64 little-endian header of C1: class 2, data
\* encoding 1, type 2 (ET_EXEC), machine 0x3E, section-header offset 0
WellFormedHeader64 == EncodeHeader(2, 1, 2, 62, 1, 0, 0, 0, 0)

\* C1: ParseELF of the well-formed 64-byte ELF64 little-endian header returns
\* no error and a model whose Class is "ELF64" and whose Machine is "EM_X86_64".
C1_ParseELFWellFormedHeader ==
    (op = "ParseELF" /\ input.file = WellFormedHeader64) =>
        /\ ret.err = ""
        /\ Len(ret.elf) = 1
        /\ ret.elf[1].Class = "ELF64"
        /\ ret.elf[1].Machine = "EM_X86_64"

\* the same logical header in the other byte order
OtherOrder(d) == [d EXCEPT !.data = 3 - d.data]

\* ParseELF succeeded on file with the header fields of the logical header d
ParsedAs(res, d) ==
    /\ res.err = ""
    /\ Len(res.elf) = 1
    /\ res.elf[1].Type = GetELFType(d.type)
    /\ res.elf[1].Machine = GetMachine(d.machine)
    /\ res.elf[1].Version = d.version
    /\ res.elf[1].Entry = d.entry

\* C2: for every logical header, ParseELF of its little-endian and of its
\* big-endian encoding both succeed and return the same Type, Machine,
\* Version and Entry, those of the logical header (every multi-byte field
\* is read in the byte order input byte 5 selects).
C2_EndiannessEquivalence ==
    (op = "ParseELF" /\ input.d.variant = "ok") =>
        /\ ParsedAs(ret, input.d)
        /\ ParsedAs(ParseELF(File(OtherOrder(input.d))), input.d)

\* C3: for every synthetic ELF64 little-endian file with N section headers
\* and M symbol-table entries, ParseELF succeeds and the model has exactly N
\* sections and exactly M symbols.
C3_RoundTripCounts ==
    (op = "ParseELF" /\ input.d.variant = "ok" /\ input.d.class = 2 /\ input.d.data = 1) =>
        /\ ret.err = ""
        /\ Len(ret.elf) = 1
        /\ Len(ret.elf[1].Sections) = input.d.nsec
        /\ ret.elf[1].Symbols.len = input.d.nsym

\* C4: when the symbol table declares more than 100,000 entries the parse
\* fails; no symbol list cut to the ceiling is returned.
C4_SymbolCeilingIsHardFailure ==
    /\ (op = "parseSymbols" /\ DeclaredSymCount(input.d) > MaxSymbols) =>
            ret.err # ""
    /\ (op = "ParseELF" /\ input.d.variant \notin BrokenVariants
        /\ DeclaredSymCount(input.d) > MaxSymbols) =>
            ret.elf = <<>>

\* the size the section-name string table of a synthetic file declares
DeclaresHugeStringTable(d) == d.nsec >= 2 /\ DeclaredShstrSize(d) > MaxTableSize

NameOffsetField(file, elf, endian, i) ==
    Uint32(endian, file, elf.Header.ShOff64 + i * SectionHeaderSize(elf.Class))

\* the bytes of section number idx (0-based) of the file
SectionBytes(file, elf, idx) ==
    Slice(file, elf.Sections[idx + 1].Offset,
          Min(Len(file), elf.Sections[idx + 1].Offset + elf.Sections[idx + 1].Size))

\* the zero-terminated string at offset in table ("" beyond the table)
StringAt(table, offset) ==
    IF offset < Len(table) THEN ReadCString(SliceFrom(table, offset)) ELSE <<>>

\* C6: after parseSections succeeds on a file with a section-name string
\* table, every section's Name is the zero-terminated string at the
\* section header's name-offset field in the string-table section selected
\* by the header's string-table index.
C6_SectionNamesResolved ==
    (op = "parseSections" /\ ret.err = "" /\ input.d.variant = "ok" /\ input.d.nsec >= 2) =>
        \A i \in 1..Len(ret.elf.Sections) :
            ret.elf.Sections[i].Name =
                StringAt(SectionBytes(input.file, ret.elf, ret.elf.Header.ShStrndx),
                         NameOffsetField(input.file, ret.elf, Order(input.d.data), i - 1))

\* the name-offset field of entry k (0-based) of the symbol table section
\* number symtab (0-based)
SymbolNameField(file, elf, endian, symtab, k) ==
    Uint32(endian, file, elf.Sections[symtab + 1].Offset + k * SymbolSize(elf.Class))

\* C7: for every symbol, Name is the zero-terminated string at the symbol's
\* name offset within Sections[symtab.Link], the string table the symbol
\* table's link field names.
C7_SymbolNamesViaLink ==
    (op = "parseSymbols" /\ ret.err = "" /\ input.d.variant = "ok" /\ input.d.nsym > 0) =>
        \A k \in 1..Len(ret.elf.Symbols.elems) :
            ret.elf.Symbols.elems[k].Name =
                StringAt(SectionBytes(input.file, ret.elf, ret.elf.Sections[4].Link),
                         SymbolNameField(input.file, ret.elf, Order(input.d.data), 3, k - 1))

\* the file ends before the end the symbol table declares
SymtabTruncated(d) == DeclaredSymCount(d) > d.nsym

\* C8: when the file holds fewer bytes than the symbol table declares, the
\* parse fails as a whole; no model with a partially decoded symbol list or
\* with zero-filled placeholder symbols is returned.
C8_TruncatedSymtabFails ==
    /\ (op = "parseSymbols" /\ SymtabTruncated(input.d)) =>
            (ret.err # "" /\ ret.elf.Symbols.len = Len(ret.elf.Symbols.elems))
    /\ (op = "ParseELF" /\ input.d.variant \notin BrokenVariants
        /\ SymtabTruncated(input.d)) =>
            ret.elf = <<>>

\* s is data up to its first zero byte, or all of data when it has none
IsCStringOf(s, data) ==
    /\ Len(s) <= Len(data)
    /\ s = SubSeq(data, 1, Len(s))
    /\ \A i \in 1..Len(s) : s[i] # 0
    /\ Len(s) < Len(data) => data[Len(s) + 1] = 0

\* C9: no name lookup reads outside its string table: section-name and
\* symbol-name resolution slice the table only at offsets strictly below its
\* length, and ReadCString returns the bytes before the first zero byte, or
\* the whole slice when there is none.
C9_LookupsInBounds ==
    /\ op \in {"parseSections", "parseSymbols"} =>
            \A i \in 1..Len(ret.lookups) :
                ret.lookups[i].at # <<>> => ret.lookups[i].at[1] < ret.lookups[i].len
    /\ op = "parseSymbols" =>
            \A i \in 1..Len(ret.lookups) :
                ret.elf.Symbols.elems[i].Name =
                    IF ret.lookups[i].at = <<>> THEN <<>>
                    ELSE StringAt(ret.strtab, ret.lookups[i].at[1])
    /\ op = "ReadCString" => IsCStringOf(ret.str, input.data)

\* C9 witness: parseSymbols has resolved a non-empty symbol name in a table
C9_Witness ==
    /\ op = "parseSymbols"
    /\ \E i \in 1..Len(ret.lookups) :
            ret.lookups[i].at # <<>> /\ ret.elf.Symbols.elems[i].Name # <<>>

----------------------------------------------------------------------------
(* 06_ar.go: the archive codec                                             *)

ArMagic == <<33, 60, 97, 114, 99, 104, 62, 10>>

MaxMemberSize == 104857600

Spaces(n) == [i \in 1..n |-> 32]

\* padString(s, length): s cut or filled with spaces to length bytes
padString(str, length) ==
    IF Len(str) >= length THEN SubSeq(str, 1, length)
    ELSE str \o Spaces(length - Len(str))

\* fmt's %d of an integer, as bytes
FormatInt(n) == IF n < 0 THEN <<45>> \o FormatDecimal(0 - n) ELSE FormatDecimal(n)

RECURSIVE FormatOctal(_)
\* fmt's %o of a natural, as bytes
FormatOctal(n) ==
    IF n < 8 THEN <<48 + n>> ELSE Append(FormatOctal(n \div 8), 48 + (n % 8))

\* formatHeader(h): the 60 bytes of a member header
formatHeader(h) ==
    padString(h.Name, 16) \o padString(FormatInt(h.Date), 12)
    \o padString(FormatInt(h.UID), 6) \o padString(FormatInt(h.GID), 6)
    \o padString(FormatOctal(h.Mode), 8) \o padString(FormatInt(h.Size), 10)
    \o <<96, 10>>

IsBlank(c) == c = 32 \/ c = 9

RECURSIVE TrimLeft(_)
TrimLeft(str) == IF str # <<>> /\ IsBlank(Head(str)) THEN TrimLeft(Tail(str)) ELSE str

RECURSIVE TrimRight(_)
TrimRight(str) ==
    IF str # <<>> /\ IsBlank(str[Len(str)]) THEN TrimRight(SubSeq(str, 1, Len(str) - 1))
    ELSE str

\* trimSpace(s): s without leading and trailing spaces and tabs
trimSpace(str) == TrimRight(TrimLeft(str))

RECURSIVE ParseDigits(_, _)
\* the value of a string of decimal digits read after acc; -1 when a byte is
\* no digit; values of Huge and more are Huge
ParseDigits(str, acc) ==
    IF str = <<>> THEN acc
    ELSE IF Head(str) < 48 \/ Head(str) > 57 THEN -1
    ELSE IF acc > (Huge - (Head(str) - 48)) \div 10 THEN ParseDigits(Tail(str), Huge)
    ELSE ParseDigits(Tail(str), IF acc = Huge THEN Huge ELSE acc * 10 + (Head(str) - 48))

\* the value of strconv.ParseInt(s, 10, 64) / strconv.Atoi(s) with the error
\* dropped: an optional sign and digits, 0 when s is no number
ParseIntOrZero(str) ==
    IF str = <<>> THEN 0
    ELSE IF Head(str) = 45
    THEN (IF Tail(str) = <<>> \/ ParseDigits(Tail(str), 0) = -1 THEN 0
          ELSE 0 - ParseDigits(Tail(str), 0))
    ELSE IF Head(str) = 43
    THEN (IF Tail(str) = <<>> \/ ParseDigits(Tail(str), 0) = -1 THEN 0
          ELSE ParseDigits(Tail(str), 0))
    ELSE IF ParseDigits(str, 0) = -1 THEN 0 ELSE ParseDigits(str, 0)

\* "Parse header" of readArchive
ParseArchiveHeader(headerBytes) ==
    [Name |-> trimSpace(Slice(headerBytes, 0, 16)),
     Date |-> ParseIntOrZero(trimSpace(Slice(headerBytes, 16, 28))),
     UID |-> ParseIntOrZero(trimSpace(Slice(headerBytes, 28, 34))),
     GID |-> ParseIntOrZero(trimSpace(Slice(headerBytes, 34, 40))),
     Mode |-> ParseIntOrZero(trimSpace(Slice(headerBytes, 40, 48))),
     Size |-> ParseIntOrZero(trimSpace(Slice(headerBytes, 48, 58))),
     EndChar |-> Slice(headerBytes, 58, 60)]

\* what readArchive returns: the error ("" for nil) and the member list
ArchiveResult(err, members) == [err |-> err, members |-> members]

RECURSIVE ReadMembers(_, _, _)

\* a member loop that stops at a bad size or a short payload and returns the
\* members read so far
ReadMemberShortened(file, pos, header, acc) ==
    IF header.Size < 0 \/ header.Size > MaxMemberSize THEN ArchiveResult("", acc)
    ELSE IF ReadFull(file, pos, header.Size).err # "" THEN ArchiveResult("", acc)
    ELSE ReadMembers(file, pos + header.Size + (header.Size % 2),
                     Append(acc, [Header |-> header,
                                  Data |-> ReadFull(file, pos, header.Size).data]))

\* the member loop of readArchive after "Parse header": the reader is behind
\* the header at pos
ReadMember(file, pos, header, acc) ==
    IF header.Size < 0 \/ header.Size > MaxMemberSize
    THEN ArchiveResult("invalid member size", <<>>)
    ELSE IF ReadFull(file, pos, header.Size).err # ""
    THEN ArchiveResult("failed to read member data", <<>>)
    ELSE ReadMembers(file, pos + header.Size + (header.Size % 2),
                     Append(acc, [Header |-> header,
                                  Data |-> ReadFull(file, pos, header.Size).data]))

\* the member loop of readArchive with the reader at pos
ReadMembers(file, pos, acc) ==
    IF Read(file, pos, 60).n < 60 THEN ArchiveResult("", acc)
    ELSE ReadMember(file, pos + 60, ParseArchiveHeader(Read(file, pos, 60).data), acc)

\* readArchive(archiveName) for an archive file holding the bytes file
readArchive(file) ==
    IF file = <<>> THEN ArchiveResult("failed to read magic", <<>>)
    ELSE IF Read(file, 0, 8).data # ArMagic THEN ArchiveResult("invalid archive magic", <<>>)
    ELSE ReadMembers(file, 8, <<>>)

\* a member written without the pad byte
WriteMemberUnpadded(member) == formatHeader(member.Header) \o member.Data

\* the bytes writeArchive writes for one member
WriteMember(member) ==
    formatHeader(member.Header) \o member.Data
    \o (IF Len(member.Data) % 2 # 0 THEN <<10>> ELSE <<>>)

\* writeArchive(archiveName, members): the bytes of the file, members being
\* the values of the map in the order the range loop visits them
writeArchive(members) ==
    ArMagic \o Flatten([i \in 1..Len(members) |-> WriteMember(members[i])])

----------------------------------------------------------------------------
(* The archives written: the members createArchive builds from files       *)

MaxNameLen == 17

MaxPayloadLen == 2

MaxMembers == 2

Letters(c, n) == [i \in 1..n |-> c]

\* file names: "a" repeated 1, 16 or MaxNameLen times, and "a "
MemberNames == {Letters(97, n) : n \in {1, 16, MaxNameLen}} \cup {<<97, 32>>}

Payloads == UNION {[1..n -> {96, 10}] : n \in 0..MaxPayloadLen}

\* the member createArchive builds for the file name holding data
NewMember(name, data) ==
    [Header |-> [Name |-> name, Date |-> 1700000000, UID |-> 0, GID |-> 0,
                 Mode |-> 420, Size |-> Len(data), EndChar |-> <<0, 0>>],
     Data |-> data]

Members == {NewMember(name, data) : name \in MemberNames, data \in Payloads}

\* the values of a members map (one member per name) in a visiting order
MemberLists ==
    UNION {{ms \in [1..n -> Members] :
                \A i, j \in 1..n : i # j => ms[i].Header.Name # ms[j].Header.Name} :
           n \in 0..MaxMembers}

\* writeArchive on a fresh archive name
WriteArchiveCall ==
    /\ op = "init"
    /\ \E members \in MemberLists :
        /\ op' = "writeArchive"
        /\ arWritten' = members
        /\ arFile' = writeArchive(members)
        /\ UNCHANGED <<input, ret, arRead, disk>>

\* readArchive on the archive just written
ReadArchiveCall ==
    /\ op = "writeArchive"
    /\ op' = "readArchive"
    /\ arRead' = readArchive(arFile)
    /\ UNCHANGED <<input, ret, arFile, arWritten, disk>>

\* archive files damaged after they were written: members named a, aa, ...
\* in file order, one of them (the victim) damaged
DamagedLists ==
    UNION {{[i \in 1..n |-> NewMember(Letters(97, i), datas[i])] :
                datas \in [1..n -> Payloads]} : n \in 1..MaxMembers}

\* the size field holds -1 ("negative"), the ceiling plus one ("huge"), one
\* more than the bytes that follow the header ("overrun"), a letter
\* ("notnumber") or blanks ("blank"); the terminator is XX ("terminator");
\* the file ends one byte before the end of the payload ("cut")
Damages == {"none", "negative", "huge", "overrun", "cut", "notnumber", "blank", "terminator"}

\* the file offset of the header of member k
MemberOffset(members, k) == Len(writeArchive(SubSeq(members, 1, k - 1)))

\* file with the bytes from offset at on replaced by bytes
ReplaceAt(file, at, bytes) ==
    [i \in 1..Len(file) |->
        IF i > at /\ i <= at + Len(bytes) THEN bytes[i - at] ELSE file[i]]

\* the file with the header at offset off, of a member of len payload bytes, damaged
Damage(file, off, len, damage) ==
    CASE damage = "negative"   -> ReplaceAt(file, off + 48, padString(<<45, 49>>, 10))
      [] damage = "huge"       -> ReplaceAt(file, off + 48, padString(FormatInt(MaxMemberSize + 1), 10))
      [] damage = "overrun"    -> ReplaceAt(file, off + 48,
                                            padString(FormatInt(Len(file) - (off + 60) + 1), 10))
      [] damage = "cut"        -> SubSeq(file, 1, off + 60 + len - 1)
      [] damage = "notnumber"  -> ReplaceAt(file, off + 48, padString(<<120>>, 10))
      [] damage = "blank"      -> ReplaceAt(file, off + 48, Spaces(10))
      [] damage = "terminator" -> ReplaceAt(file, off + 58, <<88, 88>>)
      [] OTHER                 -> file

DamagedArchives ==
    {c \in [members : DamagedLists, victim : 1..MaxMembers, damage : Damages] :
        /\ c.victim <= Len(c.members)
        /\ c.damage = "cut" => Len(c.members[c.victim].Data) >= 1}

\* an archive written by writeArchive and damaged afterwards
DamageArchiveOn(c, file) ==
    /\ op' = "damage"
    /\ input' = [victim |-> c.victim, damage |-> c.damage]
    /\ arWritten' = c.members
    /\ arFile' = Damage(file, MemberOffset(c.members, c.victim),
                        Len(c.members[c.victim].Data), c.damage)
    /\ UNCHANGED <<ret, arRead, disk>>

DamageArchiveCall ==
    op = "init" /\ \E c \in DamagedArchives : DamageArchiveOn(c, writeArchive(c.members))

\* readArchive on the damaged archive
ReadDamagedCall ==
    /\ op = "damage"
    /\ op' = "readDamaged"
    /\ arRead' = readArchive(arFile)
    /\ UNCHANGED <<input, ret, arFile, arWritten, disk>>

NextAr ==
    \/ WriteArchiveCall
    \/ ReadArchiveCall

NextDamaged ==
    \/ DamageArchiveCall
    \/ ReadDamagedCall

SpecDamaged == Init /\ [][NextDamaged]_vars

SpecAr == Init /\ [][NextAr]_vars

----------------------------------------------------------------------------
(* ranlib: the archive index                                               *)

MaxIndexSymbols == 100000

\* padStringForRanlib(s, length)
padStringForRanlib(str, length) ==
    IF Len(str) >= length THEN SubSeq(str, 1, length)
    ELSE str \o Spaces(length - Len(str))

\* formatHeaderForRanlib(h): name, size and terminator; the other fields
\* stay zero bytes
formatHeaderForRanlib(h) ==
    padStringForRanlib(h.Name, 16) \o Zeros(32)
    \o padStringForRanlib(FormatInt(h.Size), 10) \o <<96, 10>>

\* trimSpaceForRanlib(s)
trimSpaceForRanlib(str) == TrimRight(TrimLeft(str))

RECURSIVE ParseDigitsForRanlib(_, _)
\* the loop of parseInt64ForRanlib: -1 for its two error returns
ParseDigitsForRanlib(str, result) ==
    IF str = <<>> THEN result
    ELSE IF Head(str) < 48 \/ Head(str) > 57 THEN -1
    ELSE IF result * 10 + (Head(str) - 48) > MaxMemberSize THEN -1
    ELSE ParseDigitsForRanlib(Tail(str), result * 10 + (Head(str) - 48))

\* parseInt64ForRanlib(s) with the error dropped: 0 on an error
parseInt64ForRanlib(str) ==
    IF ParseDigitsForRanlib(str, 0) = -1 THEN 0 ELSE ParseDigitsForRanlib(str, 0)

\* "Parse header" of readArchiveForRanlib: only Name and Size are set
ParseHeaderForRanlib(headerBytes) ==
    [Name |-> trimSpaceForRanlib(Slice(headerBytes, 0, 16)),
     Size |-> parseInt64ForRanlib(trimSpaceForRanlib(Slice(headerBytes, 48, 58)))]

RECURSIVE ReadMembersForRanlib(_, _, _)

\* the member loop of readArchiveForRanlib after "Parse header"; file.Read
\* fills what the file still holds, and fails only when it holds nothing
ReadMemberForRanlib(file, pos, header, acc) ==
    IF header.Size < 0 \/ header.Size > MaxMemberSize
    THEN ArchiveResult("invalid member size", <<>>)
    ELSE IF header.Size > 0 /\ Read(file, pos, header.Size).err # ""
    THEN ArchiveResult("", acc)
    ELSE ReadMembersForRanlib(
            file,
            Min(pos + header.Size, Max(Len(file), pos)) + (header.Size % 2),
            Append(acc, [Header |-> header,
                         Data |-> IF header.Size = 0 THEN <<>>
                                  ELSE Read(file, pos, header.Size).data]))

\* the member loop of readArchiveForRanlib with the reader at pos
ReadMembersForRanlib(file, pos, acc) ==
    IF Read(file, pos, 60).n < 60 THEN ArchiveResult("", acc)
    ELSE ReadMemberForRanlib(file, pos + 60,
                             ParseHeaderForRanlib(Read(file, pos, 60).data), acc)

\* readArchiveForRanlib(archiveName) for an archive file holding the bytes file
readArchiveForRanlib(file) ==
    IF file = <<>> THEN ArchiveResult("failed to read magic", <<>>)
    ELSE IF Read(file, 0, 8).data # ArMagic THEN ArchiveResult("invalid archive magic", <<>>)
    ELSE ReadMembersForRanlib(file, 8, <<>>)

\* the bytes writeArchiveForRanlib writes for one member
WriteMemberForRanlib(member) ==
    formatHeaderForRanlib(member.Header) \o member.Data
    \o (IF Len(member.Data) % 2 # 0 THEN <<10>> ELSE <<>>)

\* writeArchiveForRanlib(archiveName, members): the bytes of the file,
\* members being the values of the map in the order the range loop visits them
writeArchiveForRanlib(members) ==
    ArMagic \o Flatten([i \in 1..Len(members) |-> WriteMemberForRanlib(members[i])])

\* isObjectFile(data)
isObjectFile(data) ==
    /\ Len(data) >= 4
    /\ data[1] = 127 /\ data[2] = 69 /\ data[3] = 76 /\ data[4] = 70

\* extractSymbolsFromObject(data, memberName): one placeholder symbol "main"
extractSymbolsFromObject(data, memberName) ==
    IF Len(data) > MaxMemberSize THEN <<>>
    ELSE <<[Name |-> <<109, 97, 105, 110>>, Member |-> memberName, Offset |-> 0]>>

RECURSIVE ExtractSymbols(_, _)
\* the loop "Extract symbols from object files" of generateIndex from member i
ExtractSymbols(members, i) ==
    IF i > Len(members) THEN <<>>
    ELSE (IF isObjectFile(members[i].Data)
          THEN extractSymbolsFromObject(members[i].Data, members[i].Header.Name)
          ELSE <<>>)
         \o ExtractSymbols(members, i + 1)

\* copy(data[offset:], src) on a slice data: as many bytes as fit
CopyInto(data, offset, src) ==
    [i \in 1..Len(data) |->
        IF i > offset /\ i <= offset + Len(src) THEN src[i - offset] ELSE data[i]]

\* offset after "Pad to 8 bytes"
PadTo8(offset) == offset + ((8 - (offset % 8)) % 8)

RECURSIVE WriteSymbolEntries(_, _, _, _)
\* the loop "Write symbol entries" of createSymbolTable from symbol i on;
\* <<>> when data[offset] is beyond the slice (the run-time panic)
WriteSymbolEntries(symbols, i, data, offset) ==
    IF i > Len(symbols) THEN <<data>>
    ELSE IF offset >= Len(data) THEN <<>>
    ELSE WriteSymbolEntries(
            symbols, i + 1,
            CopyInto([data EXCEPT ![offset + 1] = Min(Len(symbols[i].Name), 255)],
                     offset + 1,
                     SubSeq(symbols[i].Name, 1, Min(Len(symbols[i].Name), 255))),
            PadTo8(offset + 1 + Min(Len(symbols[i].Name), 255)))

\* the count of createSymbolTable as 4 little-endian bytes
CountBytes(n) ==
    <<n % 256, (n \div 256) % 256, (n \div 65536) % 256, (n \div 16777216) % 256>>

\* the member createSymbolTable returns for the data written; <<>> on a panic
SymbolTableMember(written) ==
    IF written = <<>> THEN <<>>
    ELSE <<[Header |-> [Name |-> <<47>>, Size |-> Len(written[1])], Data |-> written[1]]>>

\* createSymbolTable(symbols)
createSymbolTable(symbols) ==
    SymbolTableMember(
        WriteSymbolEntries(
            SubSeq(symbols, 1, Min(Len(symbols), MaxIndexSymbols)), 1,
            CountBytes(Min(Len(symbols), MaxIndexSymbols))
                \o Zeros(8 * Min(Len(symbols), MaxIndexSymbols)),
            4))

SymdefName == <<95, 95, 46, 83, 89, 77, 68, 69, 70>>

\* the keys of membersMap after the loop that fills it
MapKeys(members) == {members[i].Header.Name : i \in 1..Len(members)}

\* membersMap[name] after the loop that fills it: the last member of that name
MapValue(members, name) ==
    members[CHOOSE i \in 1..Len(members) :
                /\ members[i].Header.Name = name
                /\ \A j \in (i + 1)..Len(members) : members[j].Header.Name # name]

\* the keys the old symbol table is removed from: everything kept as it is
KeepOldIndex(keys) == keys

\* "Remove old symbol table if exists"
RemoveOldIndex(keys) == keys \ {SymdefName, <<47>>}

\* the orders in which a range loop may visit the keys of a map
VisitOrders(keys) ==
    {order \in [1..Cardinality(keys) -> keys] :
        \A i, j \in 1..Cardinality(keys) : i # j => order[i] # order[j]}

\* the values of membersMap, the new symbol table under "/", in a visiting order
MapValues(members, symbolTable, order) ==
    [i \in 1..Len(order) |->
        IF order[i] = <<47>> THEN symbolTable ELSE MapValue(members, order[i])]

\* what generateIndex leaves: the error, the members read, the symbols
\* extracted and the symbol table member created
IndexResult(err, members, symbols, symbolTable) ==
    [err |-> err, members |-> members, symbols |-> symbols, symbolTable |-> symbolTable]

\* generateIndex from "Add or replace symbol table in archive" on; the map
\* is written in one of the orders its range loop may take
WriteIndexed(members, symbols, symbolTable) ==
    IF symbolTable = <<>>
    THEN /\ ret' = IndexResult("index out of range", members, symbols, <<>>)
         /\ arFile' = arFile
    ELSE \E order \in VisitOrders(RemoveOldIndex(MapKeys(members)) \cup {<<47>>}) :
            /\ ret' = IndexResult("", members, symbols, symbolTable[1])
            /\ arFile' = writeArchiveForRanlib(MapValues(members, symbolTable[1], order))

\* generateIndex after "Read archive", whose outcome is rd
GenerateIndexOn(rd) ==
    /\ op' = "generateIndex"
    /\ UNCHANGED <<input, arWritten, arRead, disk>>
    /\ IF rd.err # ""
       THEN /\ ret' = IndexResult("failed to read archive", <<>>, <<>>, <<>>)
            /\ arFile' = arFile
       ELSE WriteIndexed(rd.members, ExtractSymbols(rd.members, 1),
                         createSymbolTable(ExtractSymbols(rd.members, 1)))

\* generateIndex(archiveName) on the archive on disk, once or once more
GenerateIndexCall ==
    /\ op \in {"archive", "generateIndex"}
    /\ GenerateIndexOn(readArchiveForRanlib(arFile))

----------------------------------------------------------------------------
(* The archives ranlib is run on                                           *)

MaxIndexedMembers == 2

\* a relocatable ELF32 object with the symbols null and "a", and one that is
\* a header only
ObjectWithSymbols ==
    [class |-> 1, data |-> 1, type |-> 1, machine |-> 3, version |-> 1, entry |-> 0,
     nsec |-> 4, nsym |-> 2, strFirst |-> FALSE, info |-> 1, variant |-> "ok"]

ObjectHeaderOnly ==
    [ObjectWithSymbols EXCEPT !.nsec = 0, !.nsym = 0, !.info = 0]

Objects == {ObjectWithSymbols, ObjectHeaderOnly}

\* the names of the symbols of the object d that have a name
ObjectSymbolNames(d) == {LetterName(97, k) : k \in 1..(d.nsym - 1)}

IndexedNames == {<<97>>, <<98>>, <<47>>, SymdefName}

IndexedPayloads == {<<96>>} \cup {File(d) : d \in Objects}

IndexedMembers == {NewMember(name, data) : name \in IndexedNames, data \in IndexedPayloads}

IndexedLists == UNION {[1..n -> IndexedMembers] : n \in 0..MaxIndexedMembers}

\* the archive files: written by ar, the same with the last two bytes
\* missing (one member only), and an empty file
ArchivesOnDisk ==
    {[members |-> ms, cut |-> FALSE, file |-> writeArchive(ms)] : ms \in IndexedLists}
    \cup {[members |-> ms, cut |-> TRUE,
           file |-> SubSeq(writeArchive(ms), 1, Len(writeArchive(ms)) - 2)] :
            ms \in [1..1 -> IndexedMembers]}
    \cup {[members |-> <<>>, cut |-> TRUE, file |-> <<>>]}

\* an archive file is on disk
ArchiveOnDiskCall ==
    /\ op = "init"
    /\ \E a \in ArchivesOnDisk :
        /\ op' = "archive"
        /\ input' = [members |-> a.members, cut |-> a.cut]
        /\ arFile' = a.file
        /\ UNCHANGED <<ret, arWritten, arRead, disk>>

NextRanlib ==
    \/ ArchiveOnDiskCall
    \/ GenerateIndexCall

SpecRanlib == Init /\ [][NextRanlib]_vars

----------------------------------------------------------------------------
(* 06_ar.go: the file names extractArchive refuses                         *)

\* bytes.Contains(s, pattern)
Contains(str, pattern) ==
    \E i \in 0..(Len(str) - Len(pattern)) : Slice(str, i, i + Len(pattern)) = pattern

\* the patterns of containsPathTraversal: "../", "..\", "/", "\"
DangerousPatterns == {<<46, 46, 47>>, <<46, 46, 92>>, <<47>>, <<92>>}

\* containsPathTraversal(path)
containsPathTraversal(path) == \E pattern \in DangerousPatterns : Contains(path, pattern)

MaxPathLen == 4

\* the paths of TestContainsPathTraversal, and every path of up to
\* MaxPathLen bytes over '.', '/', '\' and 'a'
TestPaths ==
    {<<46, 46, 47, 102, 105, 108, 101, 46, 116, 120, 116>>, <<46, 46, 92, 102, 105, 108, 101, 46, 116, 120, 116>>, <<47, 101, 116, 99, 47, 112, 97, 115, 115, 119, 100>>,
     <<110, 111, 114, 109, 97, 108, 95, 102, 105, 108, 101, 46, 116, 120, 116>>, <<115, 117, 98, 100, 105, 114, 47, 102, 105, 108, 101, 46, 116, 120, 116>>}

Paths == TestPaths \cup UNION {[1..n -> {46, 47, 92, 97}] : n \in 0..MaxPathLen}

ContainsPathTraversalCall ==
    /\ op = "init"
    /\ \E path \in Paths :
        /\ op' = "containsPathTraversal"
        /\ input' = [path |-> path]
        /\ ret' = [result |-> containsPathTraversal(path)]
        /\ UNCHANGED <<arFile, arWritten, arRead, disk>>

NextPath == ContainsPathTraversalCall

SpecPath == Init /\ [][NextPath]_vars

----------------------------------------------------------------------------
(* 03_nm.go: the symbol lister                                             *)

\* toUpper(c), toLower(c) on a byte
toUpper(c) == IF c >= 97 /\ c <= 122 THEN c - 32 ELSE c

toLower(c) == IF c >= 65 /\ c <= 90 THEN c + 32 ELSE c

\* "Determine symbol type character"
SymbolTypeChar(sym) ==
    CASE sym.Type = "STT_NOTYPE"  -> 85
      [] sym.Type = "STT_OBJECT"  -> 68
      [] sym.Type = "STT_FUNC"    -> 84
      [] sym.Type = "STT_SECTION" -> 83
      [] sym.Type = "STT_FILE"    -> 65
      [] OTHER                    -> 63

\* "Determine binding"
WithBinding(sym, typeChar) ==
    IF sym.Binding = "STB_GLOBAL" THEN toUpper(typeChar)
    ELSE IF sym.Binding = "STB_WEAK"
    THEN (IF typeChar = 85 THEN 119 ELSE toLower(typeChar))
    ELSE typeChar

RECURSIVE ZeroPadded(_, _)
\* fmt's %0<width>x, given the %x text
ZeroPadded(text, width) ==
    IF Len(text) >= width THEN text ELSE ZeroPadded("0" \o text, width)

\* "Print symbol": the address column, the type character and the name
SymbolLine(class, sym) ==
    [address |-> IF sym.Value = 0 /\ sym.Type = "STT_NOTYPE" THEN "                "
                 ELSE IF class = "ELF64" THEN ZeroPadded(Hex(sym.Value), 16)
                 ELSE ZeroPadded(Hex(sym.Value), 8),
     typeChar |-> WithBinding(sym, SymbolTypeChar(sym)),
     name |-> sym.Name]

\* the slice without the elements the print loop skips
NamedOnly(symbols) == SelectSeq(symbols, LAMBDA sym : sym.Name # <<>>)

\* the orders of the indices of symbols: every one of them
AnyOrders(symbols) ==
    {order \in [1..Len(symbols) -> 1..Len(symbols)] :
        \A i, j \in 1..Len(symbols) : i # j => order[i] # order[j]}

\* the orders sort.Slice may leave for the less function
\* symbols[i].Value < symbols[j].Value: sorted, equal values in any order
SortedOrders(symbols) ==
    {order \in [1..Len(symbols) -> 1..Len(symbols)] :
        /\ \A i, j \in 1..Len(symbols) : i # j => order[i] # order[j]
        /\ \A i \in 1..(Len(symbols) - 1) :
                symbols[order[i]].Value <= symbols[order[i + 1]].Value}

\* what listSymbols leaves: the error, the lines printed, the symbols they
\* were printed for, and the model after the call
ListResult(elfFile, printed) ==
    [err |-> "", elf |-> elfFile, printed |-> printed,
     lines |-> [i \in 1..Len(printed) |-> SymbolLine(elfFile.Class, printed[i])]]

\* listSymbols(elfFile), the copy of the symbols sorted into order
ListSymbolsOn(elfFile, order) ==
    /\ op' = "listSymbols"
    /\ input' = [elf |-> elfFile]
    /\ ret' = ListResult(elfFile,
                         NamedOnly([i \in 1..Len(order) |-> elfFile.Symbols[order[i]]]))
    /\ UNCHANGED <<arFile, arWritten, arRead, disk>>

MaxListedSymbols == 3

\* the symbols of the models listed: values 0, 10, 30, 50; untyped globals
\* and weak functions named "a", and nameless section symbols
ListedSymbols ==
    {[Symbol EXCEPT !.Name = <<97>>, !.Value = value, !.Type = kind[1], !.Binding = kind[2]] :
        value \in {0, 10, 30, 50},
        kind \in {<<"STT_NOTYPE", "STB_GLOBAL">>, <<"STT_FUNC", "STB_WEAK">>}}
    \cup {[Symbol EXCEPT !.Value = value, !.Type = "STT_SECTION", !.Binding = "STB_LOCAL"] :
            value \in {0, 30}}

\* the models listed: the class and the symbol slice
ListedModels ==
    {[Class |-> class, Symbols |-> symbols] :
        class \in {"ELF32", "ELF64"},
        symbols \in UNION {[1..n -> ListedSymbols] : n \in 0..MaxListedSymbols}}

ListSymbolsCall ==
    /\ op = "init"
    /\ \E elfFile \in ListedModels :
        \E order \in SortedOrders(elfFile.Symbols) : ListSymbolsOn(elfFile, order)

NextNm == ListSymbolsCall

SpecNm == Init /\ [][NextNm]_vars

----------------------------------------------------------------------------
(* size: the section sizes of a file                                       *)

\* a + b on section sizes; sums of Huge and more are Huge
AddSizes(a, b) == IF a > Huge - b THEN Huge ELSE a + b

TextNames == {<<46, 116, 101, 120, 116>>, <<46, 105, 110, 105, 116>>, <<46, 102, 105, 110, 105>>}

DataNames == {<<46, 100, 97, 116, 97>>, <<46, 114, 111, 100, 97, 116, 97>>, <<46, 115, 100, 97, 116, 97>>}

BssNames == {<<46, 98, 115, 115>>, <<46, 115, 98, 115, 115>>}

RECURSIVE SizeBuckets(_, _, _)
\* the loop over elfFile.Sections of showSize from section i on, the three
\* sums so far being sums = <<textSize, dataSize, bssSize>>
SizeBuckets(sections, i, sums) ==
    IF i > Len(sections) THEN sums
    ELSE SizeBuckets(sections, i + 1,
            CASE sections[i].Name \in TextNames ->
                    <<AddSizes(sums[1], sections[i].Size), sums[2], sums[3]>>
              [] sections[i].Name \in DataNames ->
                    <<sums[1], AddSizes(sums[2], sections[i].Size), sums[3]>>
              [] sections[i].Name \in BssNames ->
                    <<sums[1], sums[2], AddSizes(sums[3], sections[i].Size)>>
              [] OTHER -> sums)

\* fmt's %7d: the decimal digits after spaces up to 7 bytes
Decimal7(n) ==
    IF Len(FormatDecimal(n)) >= 7 THEN FormatDecimal(n)
    ELSE Spaces(7 - Len(FormatDecimal(n))) \o FormatDecimal(n)

\* what showSize leaves: the error and the columns of the line printed
SizeResult(err, sums) ==
    IF err # "" THEN [err |-> err, printed |-> FALSE]
    ELSE [err |-> "", printed |-> TRUE,
          text |-> Decimal7(sums[1]), data |-> Decimal7(sums[2]), bss |-> Decimal7(sums[3]),
          dec |-> Decimal7(AddSizes(AddSizes(sums[1], sums[2]), sums[3])),
          hex |-> Hex(AddSizes(AddSizes(sums[1], sums[2]), sums[3]))]

\* showSize(filename) after elf.ParseELF(file), whose outcome is parsed
ShowSizeParsed(parsed) ==
    IF parsed.err # "" THEN SizeResult("not an ELF file", <<0, 0, 0>>)
    ELSE SizeResult("", SizeBuckets(parsed.elf[1].Sections, 1, <<0, 0, 0>>))

\* showSize(filename) for a file holding the bytes file
showSize(file) == ShowSizeParsed(ParseELF(file))

----------------------------------------------------------------------------
(* strip: the stripped model of a file                                     *)

DebugPrefixes == {<<46, 100, 101, 98, 117, 103>>, <<46, 122, 100, 101, 98, 117, 103>>, <<46, 99, 111, 109, 109, 101, 110, 116>>, <<46, 110, 111, 116, 101>>}

\* isDebugSection(name)
isDebugSection(name) ==
    \E prefix \in DebugPrefixes :
        Len(name) >= Len(prefix) /\ SubSeq(name, 1, Len(prefix)) = prefix

\* "Remove debug sections"
RemoveDebugSections(sections) ==
    SelectSeq(sections, LAMBDA section : ~isDebugSection(section.Name))

\* stripFile(filename) after elf.ParseELF(file), whose outcome is parsed: the
\* error and the model stripFile leaves in memory; the file is renamed and
\* renamed back, and nothing is written
StripParsed(parsed) ==
    IF parsed.err # "" THEN [err |-> "not an ELF file", elf |-> <<>>]
    ELSE [err |-> "",
          elf |-> <<[parsed.elf[1] EXCEPT
                        !.Symbols = [len |-> 0, elems |-> <<>>],
                        !.Sections = RemoveDebugSections(parsed.elf[1].Sections)]>>]

\* stripFile(filename) for a file holding the bytes file
stripFile(file) == StripParsed(ParseELF(file))

----------------------------------------------------------------------------
(* The files size and strip are run on: ELF64 little-endian executables    *)
(* with a null section, .shstrtab and up to MaxNamedSections sections      *)

MaxNamedSections == 3

SectionNames == {<<46, 116, 101, 120, 116>>, <<46, 100, 97, 116, 97>>, <<46, 98, 115, 115>>, <<46, 99, 111, 109, 109, 101, 110, 116>>, <<46, 100, 101, 98, 117, 103, 95, 105, 110, 102, 111>>}

SectionSizes == {25, 50, 100}

NamedSections ==
    UNION {[1..n -> [name : SectionNames, size : SectionSizes]] : n \in 0..MaxNamedSections}

\* the section-name table: "", ".shstrtab" and the names, zero-terminated
NameTable(named) ==
    <<0>> \o <<46, 115, 104, 115, 116, 114, 116, 97, 98>> \o <<0>>
    \o Flatten([k \in 1..Len(named) |-> named[k].name \o <<0>>])

RECURSIVE NameOffset(_, _)
\* the offset of the name of section k of named in NameTable(named)
NameOffset(named, k) ==
    IF k = 1 THEN 2 + Len(<<46, 115, 104, 115, 116, 114, 116, 97, 98>>) ELSE NameOffset(named, k - 1) + Len(named[k - 1].name) + 1

RECURSIVE ContentOffset(_, _, _)
\* the file offset of the content of section k of named, the first at base
ContentOffset(named, k, base) ==
    IF k = 1 THEN base ELSE ContentOffset(named, k - 1, base) + named[k - 1].size

\* the section headers of the file: null, .shstrtab, then the named ones
\* (.bss as NOBITS) at the addresses 4096, 8192, ...
NamedSectionHeaders(named, tableAt) ==
    <<[name |-> 0, type |-> 0, addr |-> 0, offset |-> 0, size |-> 0, link |-> 0,
       info |-> 0, entsize |-> 0],
      [name |-> 1, type |-> 3, addr |-> 0, offset |-> tableAt,
       size |-> Len(NameTable(named)), link |-> 0, info |-> 0, entsize |-> 0]>>
    \o [k \in 1..Len(named) |->
            [name |-> NameOffset(named, k),
             type |-> IF named[k].name = <<46, 98, 115, 115>> THEN 8 ELSE 1,
             addr |-> 4096 * k,
             offset |-> ContentOffset(named, k, tableAt + Len(NameTable(named))),
             size |-> named[k].size, link |-> 0, info |-> 0, entsize |-> 0]]

\* the bytes of the file: header | section headers | name table | contents
NamedFile(named) ==
    EncodeHeader(2, 1, 2, 62, 1, 4198400, 64, Len(named) + 2, 1)
    \o Flatten([i \in 1..(Len(named) + 2) |->
                    EncodeSectionHeader(2, "LE", NamedSectionHeaders(named, 64 + 64 * (Len(named) + 2))[i])])
    \o NameTable(named)
    \o Zeros(ContentOffset(named, Len(named) + 1, 0))

ShowSizeOn(named, file) ==
    /\ op' = "showSize"
    /\ input' = [named |-> named, file |-> file]
    /\ ret' = showSize(file)
    /\ UNCHANGED <<arFile, arWritten, arRead, disk>>

ShowSizeCall == op = "init" /\ \E named \in NamedSections : ShowSizeOn(named, NamedFile(named))

StripFileOn(named, file) ==
    /\ op' = "stripFile"
    /\ input' = [named |-> named, file |-> file]
    /\ ret' = stripFile(file)
    /\ UNCHANGED <<arFile, arWritten, arRead, disk>>

StripFileCall == op = "init" /\ \E named \in NamedSections : StripFileOn(named, NamedFile(named))

NextFiles ==
    \/ ShowSizeCall
    \/ StripFileCall

SpecFiles == Init /\ [][NextFiles]_vars

----------------------------------------------------------------------------
(* addr2line: the section of an address (08_addr2line.go)                  *)
(* A uint64 is four 16-bit limbs, the most significant first.              *)

Limb == 65536

\* a + b without a width: five limbs, the first being the carry out of 64 bits
WideSum(a, b) ==
    LET s4 == a[4] + b[4]
        s3 == a[3] + b[3] + s4 \div Limb
        s2 == a[2] + b[2] + s3 \div Limb
        s1 == a[1] + b[1] + s2 \div Limb
    IN  <<s1 \div Limb, s1 % Limb, s2 % Limb, s3 % Limb, s4 % Limb>>

\* a + b of two uint64 in Go: the sum modulo 2^64
Add64(a, b) == SubSeq(WideSum(a, b), 2, 5)

RECURSIVE LessFrom(_, _, _)
\* a < b for limb sequences of one length, compared from limb i on
LessFrom(a, b, i) ==
    IF i > Len(a) THEN FALSE
    ELSE IF a[i] # b[i] THEN a[i] < b[i]
    ELSE LessFrom(a, b, i + 1)

\* a < b
Less64(a, b) == LessFrom(a, b, 1)

\* the test of addrToLine without the modulus: Addr <= addr < Addr + Size
InRangeUnwrapped(section, addr) ==
    /\ ~Less64(addr, section.Addr)
    /\ LessFrom(<<0>> \o addr, WideSum(section.Addr, section.Size), 1)

\* "addr >= section.Addr && addr < section.Addr+section.Size"
InRange(section, addr) ==
    /\ ~Less64(addr, section.Addr)
    /\ Less64(addr, Add64(section.Addr, section.Size))

RECURSIVE AddrToLineFrom(_, _, _)
\* the loop of addrToLine over elfFile.Sections from section i on
AddrToLineFrom(sections, addr, i) ==
    IF i > Len(sections) THEN [file |-> <<>>, line |-> 0]
    ELSE IF InRange(sections[i], addr) THEN [file |-> sections[i].Name, line |-> 0]
    ELSE AddrToLineFrom(sections, addr, i + 1)

\* addrToLine(elfFile, addr)
addrToLine(elfFile, addr) == AddrToLineFrom(elfFile.Sections, addr, 1)

\* the line main prints for ??:0
UnknownMarker == <<63, 63, 58, 48>>

\* the line main prints for one address: "%s:%d" of the answer, or ??:0
ResolvedLine(answer) ==
    IF answer.file # <<>> THEN answer.file \o <<58>> \o FormatDecimal(answer.line)
    ELSE UnknownMarker

MaxResolvedSections == 2

\* 0, 0x1000, 0x1010 and 2^64 - 16
SectionAddrs == {<<0, 0, 0, 0>>, <<0, 0, 0, 4096>>, <<0, 0, 0, 4112>>,
                 <<65535, 65535, 65535, 65520>>}

\* 0, 16 and 32
SectionLengths == {<<0, 0, 0, 0>>, <<0, 0, 0, 16>>, <<0, 0, 0, 32>>}

ResolvedNames == {<<>>, <<46, 116, 101, 120, 116>>, <<46, 100, 97, 116, 97>>}

ResolvedSections == [Name : ResolvedNames, Addr : SectionAddrs, Size : SectionLengths]

ResolvedModels ==
    {[Sections |-> sections] :
        sections \in UNION {[1..n -> ResolvedSections] : n \in 0..MaxResolvedSections}}

\* 0, 8, 0x1000, 0x100f, 0x1010, 0x1020, 2^64 - 8 and 2^64 - 1
QueriedAddrs == {<<0, 0, 0, 0>>, <<0, 0, 0, 8>>, <<0, 0, 0, 4096>>, <<0, 0, 0, 4111>>,
                 <<0, 0, 0, 4112>>, <<0, 0, 0, 4128>>,
                 <<65535, 65535, 65535, 65528>>, <<65535, 65535, 65535, 65535>>}

AddrToLineOn(elfFile, addr) ==
    /\ op' = "addrToLine"
    /\ input' = [elf |-> elfFile, addr |-> addr]
    /\ ret' = [answer |-> addrToLine(elfFile, addr),
               printed |-> ResolvedLine(addrToLine(elfFile, addr))]
    /\ UNCHANGED <<arFile, arWritten, arRead, disk>>

AddrToLineCall ==
    /\ op = "init"
    /\ \E elfFile \in ResolvedModels, addr \in QueriedAddrs : AddrToLineOn(elfFile, addr)

NextAddr == AddrToLineCall

SpecAddr == Init /\ [][NextAddr]_vars

----------------------------------------------------------------------------
(* objcopy: the Go source held by src/Projects/Binutils/README.md          *)

\* the disk with the file at path holding bytes, created or replaced
WithFile(files, path, bytes) ==
    [p \in (DOMAIN files) \cup {path} |-> IF p = path THEN bytes ELSE files[p]]

\* "append(elfFile.Sections[:i], elfFile.Sections[i+1:]...)", i from 1
RemoveAt(sections, i) == SubSeq(sections, 1, i - 1) \o SubSeq(sections, i + 1, Len(sections))

RECURSIVE DropDebugFrom(_, _)
\* "for i := len(elfFile.Sections) - 1; i >= 0; i--" removing debug sections
DropDebugFrom(sections, i) ==
    IF i < 1 THEN sections
    ELSE DropDebugFrom(IF isDebugSection(sections[i].Name) THEN RemoveAt(sections, i)
                       ELSE sections, i - 1)

\* containsString(slice, s)
containsString(slice, str) == \E k \in 1..Len(slice) : slice[k] = str

RECURSIVE RemoveNamed(_, _, _)
\* the inner loop of "Remove sections": from section i down, the first
\* section of the name is removed and the loop is left
RemoveNamed(sections, sectionName, i) ==
    IF i < 1 THEN sections
    ELSE IF sections[i].Name = sectionName THEN RemoveAt(sections, i)
    ELSE RemoveNamed(sections, sectionName, i - 1)

RECURSIVE RemoveSections(_, _, _)
\* the outer loop of "Remove sections" over options.RemoveSection from k on
RemoveSections(sections, names, k) ==
    IF k > Len(names) THEN sections
    ELSE RemoveSections(RemoveNamed(sections, names[k], Len(sections)), names, k + 1)

\* "Apply transformations": the model after the five options, in their order
ApplyOptions(elfFile, options) ==
    LET all == IF options.StripAll
               THEN [elfFile EXCEPT !.Symbols = [len |-> 0, elems |-> <<>>],
                                    !.Sections = DropDebugFrom(elfFile.Sections, Len(elfFile.Sections))]
               ELSE elfFile
        dbg == IF options.StripDebug
               THEN [all EXCEPT !.Sections = DropDebugFrom(all.Sections, Len(all.Sections))]
               ELSE all
        str == IF Len(options.StripSymbols) > 0
               THEN [dbg EXCEPT !.Symbols =
                        LET kept == SelectSeq(dbg.Symbols.elems,
                                        LAMBDA sym : ~containsString(options.StripSymbols, sym.Name))
                        IN  [len |-> Len(kept), elems |-> kept]]
               ELSE dbg
        keep == IF Len(options.KeepSymbols) > 0
                THEN [str EXCEPT !.Symbols =
                        LET kept == SelectSeq(str.Symbols.elems,
                                        LAMBDA sym : containsString(options.KeepSymbols, sym.Name))
                        IN  [len |-> Len(kept), elems |-> kept]]
                ELSE str
    IN  IF Len(options.RemoveSection) > 0
        THEN [keep EXCEPT !.Sections = RemoveSections(keep.Sections, options.RemoveSection, 1)]
        ELSE keep

\* the "minimal ELF header" of writeELF
MinimalHeader == <<127, 69, 76, 70, 2, 1, 1, 0, 0, 0, 0, 0, 0, 0, 0>>

\* writeELF(filename, elfFile) on the files: a path that cannot be opened is
\* created with the minimal header; a path that can is truncated by os.Create
\* and then copied onto itself, which copies nothing
writeELF(files, filename) ==
    IF filename \notin DOMAIN files THEN WithFile(files, filename, MinimalHeader)
    ELSE WithFile(files, filename, <<>>)

\* copyObject(inputFile, outputFile, options) on the files
copyObject(files, inputFile, outputFile, options) ==
    IF inputFile \notin DOMAIN files
    THEN [err |-> "failed to open input", elf |-> <<>>, files |-> files]
    ELSE IF ParseELF(files[inputFile]).err # ""
    THEN [err |-> "failed to parse ELF", elf |-> <<>>, files |-> files]
    ELSE [err |-> "",
          elf |-> <<ApplyOptions(ParseELF(files[inputFile]).elf[1], options)>>,
          files |-> writeELF(files, outputFile)]

\* the object files objcopy is run on: up to MaxNamedSections sections of
\* 25 bytes after the null section and .shstrtab
CopiedSections ==
    UNION {[1..n -> [name : SectionNames, size : {25}]] : n \in 0..MaxNamedSections}

CopyOptions ==
    [StripAll : BOOLEAN, StripDebug : BOOLEAN, StripSymbols : {<<>>}, KeepSymbols : {<<>>},
     RemoveSection : {<<>>, <<<<46, 116, 101, 120, 116>>>>, <<<<46, 116, 101, 120, 116>>, <<46, 100, 97, 116, 97>>>>}]

\* an object file is at in.o, and out.o exists or not
ObjectOnDiskCall ==
    /\ op = "init"
    /\ \E named \in CopiedSections, present \in BOOLEAN :
        /\ op' = "objectOnDisk"
        /\ input' = [named |-> named]
        /\ disk' = IF present
                   THEN WithFile(WithFile(NoFiles, "in.o", NamedFile(named)), "out.o", <<111, 108, 100>>)
                   ELSE WithFile(NoFiles, "in.o", NamedFile(named))
        /\ UNCHANGED <<ret, arFile, arWritten, arRead>>

CopyObjectOn(inputFile, outputFile, options) ==
    /\ op' = "copyObject"
    /\ input' = [named |-> input.named, inputFile |-> inputFile, outputFile |-> outputFile,
                 options |-> options, before |-> disk]
    /\ ret' = [err |-> copyObject(disk, inputFile, outputFile, options).err,
               elf |-> copyObject(disk, inputFile, outputFile, options).elf]
    /\ disk' = copyObject(disk, inputFile, outputFile, options).files
    /\ UNCHANGED <<arFile, arWritten, arRead>>

CopyObjectCall ==
    /\ op = "objectOnDisk"
    /\ \E outputFile \in {"in.o", "out.o"}, options \in CopyOptions :
        CopyObjectOn("in.o", outputFile, options)

NextCopy ==
    \/ ObjectOnDiskCall
    \/ CopyObjectCall

SpecCopy == Init /\ [][NextCopy]_vars

----------------------------------------------------------------------------
(* writeELF step by step: the file at the path between its system calls    *)

\* an object file is at a.o; out.o does not exist
OriginalOnDiskCall ==
    /\ op = "init"
    /\ \E named \in CopiedSections :
        /\ op' = "originalOnDisk"
        /\ input' = [original |-> NamedFile(named)]
        /\ disk' = WithFile(NoFiles, "a.o", NamedFile(named))
        /\ UNCHANGED <<ret, arFile, arWritten, arRead>>

\* "input, err := os.Open(filename)" for the output path filename
WriteELFOpen ==
    /\ op = "originalOnDisk"
    /\ \E filename \in {"a.o", "out.o"} :
        /\ op' = IF filename \in DOMAIN disk THEN "writeELF:opened" ELSE "writeELF:missing"
        /\ input' = [original |-> input.original, filename |-> filename]
        /\ UNCHANGED <<ret, disk, arFile, arWritten, arRead>>

\* "output, err := os.Create(filename)": the path is created or truncated
WriteELFCreate ==
    /\ op \in {"writeELF:opened", "writeELF:missing"}
    /\ op' = IF op = "writeELF:opened" THEN "writeELF:truncated" ELSE "writeELF:created"
    /\ disk' = WithFile(disk, input.filename, <<>>)
    /\ UNCHANGED <<input, ret, arFile, arWritten, arRead>>

\* "output.Write(header)" and "return nil" for a path that was missing
WriteELFHeader ==
    /\ op = "writeELF:created"
    /\ op' = "writeELF:done"
    /\ disk' = WithFile(disk, input.filename, disk[input.filename] \o MinimalHeader)
    /\ ret' = [err |-> ""]
    /\ UNCHANGED <<input, arFile, arWritten, arRead>>

\* "io.Copy(output, input)" and "return err": input is the file just
\* truncated, read from its start, so nothing is copied
WriteELFCopy ==
    /\ op = "writeELF:truncated"
    /\ op' = "writeELF:done"
    /\ disk' = WithFile(disk, input.filename, disk[input.filename] \o disk[input.filename])
    /\ ret' = [err |-> ""]
    /\ UNCHANGED <<input, arFile, arWritten, arRead>>

NextWrite ==
    \/ OriginalOnDiskCall
    \/ WriteELFOpen
    \/ WriteELFCreate
    \/ WriteELFHeader
    \/ WriteELFCopy

SpecWrite == Init /\ [][NextWrite]_vars

----------------------------------------------------------------------------
(* elfedit: one header field of a model edited (15_elfedit.go)             *)

MaxEditedSize == 100 * 1024 * 1024

ValidOSABI ==
    {"ELFOSABI_NONE", "ELFOSABI_LINUX", "ELFOSABI_FREEBSD", "ELFOSABI_NETBSD",
     "ELFOSABI_OPENBSD", "ELFOSABI_SOLARIS"}

\* validTypes with a value of the processor-specific range let through
TypesWithLoproc == {"ET_NONE", "ET_REL", "ET_EXEC", "ET_DYN", "ET_CORE", "ET_LOPROC"}

ValidTypes == {"ET_NONE", "ET_REL", "ET_EXEC", "ET_DYN", "ET_CORE"}

\* writeELFFile(filename, elfFile) on the files: the original is read and
\* written to filename + ".bak"; the file itself is not written
writeELFFile(files, filename, backup) ==
    IF filename \notin DOMAIN files
    THEN [err |-> "failed to read original file", files |-> files, printed |-> FALSE]
    ELSE IF Len(files[filename]) > MaxEditedSize
    THEN [err |-> "file too large", files |-> files, printed |-> FALSE]
    ELSE [err |-> "", files |-> WithFile(files, backup, files[filename]), printed |-> TRUE]

\* what editELF leaves: its error, the model behind the pointer elfFile, the
\* files, and whether the line "ELF file ... modified" was printed
EditResult(err, elfFile, written) ==
    [err |-> IF err # "" THEN err ELSE written.err, elf |-> elfFile,
     files |-> written.files, printed |-> written.printed]

\* editELF(filename, elfFile, option, args) on the files
editELF(files, filename, elfFile, option, args) ==
    LET untouched == [err |-> "", files |-> files, printed |-> FALSE]
        written == writeELFFile(files, filename, filename \o ".bak")
    IN  CASE option = "--output-class" ->
                IF Len(args) < 1 THEN EditResult("missing class value", elfFile, untouched)
                ELSE IF args[1] # "ELF32" /\ args[1] # "ELF64"
                THEN EditResult("invalid class", elfFile, untouched)
                ELSE EditResult("", [elfFile EXCEPT !.Class = args[1]], written)
          [] option = "--output-data" ->
                IF Len(args) < 1 THEN EditResult("missing data value", elfFile, untouched)
                ELSE IF args[1] # "Little Endian" /\ args[1] # "Big Endian"
                THEN EditResult("invalid data encoding", elfFile, untouched)
                ELSE EditResult("", [elfFile EXCEPT !.Data = args[1]], written)
          [] option = "--output-osabi" ->
                IF Len(args) < 1 THEN EditResult("missing OS/ABI value", elfFile, untouched)
                ELSE IF args[1] \notin ValidOSABI
                THEN EditResult("invalid OS/ABI", elfFile, untouched)
                ELSE EditResult("", [elfFile EXCEPT !.OSABI = args[1]], written)
          [] option = "--output-type" ->
                IF Len(args) < 1 THEN EditResult("missing type value", elfFile, untouched)
                ELSE IF args[1] \notin ValidTypes
                THEN EditResult("invalid type", elfFile, untouched)
                ELSE EditResult("", [elfFile EXCEPT !.Type = args[1]], written)
          [] OTHER -> EditResult("unknown option", elfFile, untouched)

\* the models elfedit is given
EditedModels ==
    [Class : {"ELF32", "ELF64"}, Data : {"Little Endian", "Big Endian"},
     OSABI : {"ELFOSABI_NONE", "ELFOSABI_LINUX"}, Type : {"ET_REL", "ET_EXEC"}]

EditOptions ==
    {"--output-class", "--output-data", "--output-osabi", "--output-type", "--output-mach"}

\* the values given after the option: none, a value of some whitelist, or a
\* value of none
EditValues ==
    {"ELF32", "ELF64", "Little Endian", "Big Endian", "ET_CORE", "ET_DYN"}
    \cup ValidOSABI \cup {"ELF128", "elf64", "", "ET_LOPROC"}

EditArgs == {<<>>} \cup {<<value>> : value \in EditValues}
              \cup {<<"ELF32", "ELF64">>, <<"ELF128", "ELF64">>}

\* the file of the model is at a.o, with or without an older backup, or is gone
EditedOnDiskCall ==
    /\ op = "init"
    /\ \E elfFile \in EditedModels, state \in {"present", "backedUp", "gone"} :
        /\ op' = "editedOnDisk"
        /\ input' = [elf |-> elfFile]
        /\ disk' = CASE state = "present" -> WithFile(NoFiles, "a.o", WellFormedHeader64)
                     [] state = "backedUp" ->
                            WithFile(WithFile(NoFiles, "a.o", WellFormedHeader64),
                                     "a.o.bak", <<111, 108, 100>>)
                     [] OTHER -> NoFiles
        /\ UNCHANGED <<ret, arFile, arWritten, arRead>>

EditELFOn(filename, elfFile, option, args) ==
    /\ op' = "editELF"
    /\ input' = [elf |-> elfFile, filename |-> filename, option |-> option, args |-> args]
    /\ ret' = [err |-> editELF(disk, filename, elfFile, option, args).err,
               elf |-> editELF(disk, filename, elfFile, option, args).elf,
               printed |-> editELF(disk, filename, elfFile, option, args).printed]
    /\ disk' = editELF(disk, filename, elfFile, option, args).files
    /\ UNCHANGED <<arFile, arWritten, arRead>>

EditELFCall ==
    /\ op = "editedOnDisk"
    /\ \E option \in EditOptions, args \in EditArgs : EditELFOn("a.o", input.elf, option, args)

NextEdit ==
    \/ EditedOnDiskCall
    \/ EditELFCall

SpecEdit == Init /\ [][NextEdit]_vars

----------------------------------------------------------------------------
(* ld: symbols resolved and sections merged (12_ld.go)                     *)

\* "make(map[string]*elf.Symbol)": the map with no key
EmptyMap == [key \in {} |-> 0]

\* the map with key bound to value, added or replaced
MapPut(map, key, value) ==
    [k \in (DOMAIN map) \cup {key} |-> IF k = key THEN value ELSE map[k]]

\* the conflict rule with its test of the recorded symbol left out
ReplacesAnyRecorded(sym, existing) == sym.Type # "STT_NOTYPE"

\* "sym.Type != "STT_NOTYPE" && existing.Type == "STT_NOTYPE""
ReplacesRecorded(sym, existing) ==
    sym.Type # "STT_NOTYPE" /\ existing.Type = "STT_NOTYPE"

RECURSIVE ResolveFrom(_, _, _)
\* the first loop of resolveSymbols from symbol i on; symbolMap holds for
\* each name the index of the symbol its pointer refers to
ResolveFrom(symbols, i, symbolMap) ==
    IF i > Len(symbols) THEN symbolMap
    ELSE IF symbols[i].Name \in DOMAIN symbolMap
    THEN ResolveFrom(symbols, i + 1,
            IF ReplacesRecorded(symbols[i], symbols[symbolMap[symbols[i].Name]])
            THEN MapPut(symbolMap, symbols[i].Name, i)
            ELSE symbolMap)
    ELSE ResolveFrom(symbols, i + 1, MapPut(symbolMap, symbols[i].Name, i))

\* resolveSymbols(symbols), its second loop ranging over the map in order
resolveSymbols(symbols, order) ==
    [k \in 1..Len(order) |-> symbols[ResolveFrom(symbols, 1, EmptyMap)[order[k]]]]

MaxLinkedSymbols == 3

LinkedNames == {<<102, 111, 111>>, <<98, 97, 114>>}

LinkedTypes == {"STT_NOTYPE", "STT_FUNC", "STT_OBJECT"}

\* the symbols of the inputs in input order; Value tells the occurrences apart
LinkedSymbols ==
    {[i \in 1..Len(kinds) |->
        [Symbol EXCEPT !.Name = kinds[i][1], !.Type = kinds[i][2], !.Value = 16 * i]] :
        kinds \in UNION {[1..n -> LinkedNames \X LinkedTypes] : n \in 0..MaxLinkedSymbols}}

ResolveSymbolsOn(symbols, order) ==
    /\ op' = "resolveSymbols"
    /\ input' = [symbols |-> symbols]
    /\ ret' = [resolved |-> resolveSymbols(symbols, order)]
    /\ UNCHANGED <<arFile, arWritten, arRead, disk>>

ResolveSymbolsCall ==
    /\ op = "init"
    /\ \E symbols \in LinkedSymbols :
        \E order \in VisitOrders(DOMAIN ResolveFrom(symbols, 1, EmptyMap)) :
            ResolveSymbolsOn(symbols, order)

NextLd == ResolveSymbolsCall

SpecLd == Init /\ [][NextLd]_vars

----------------------------------------------------------------------------
(* ld: the link of input files (12_ld.go)                                  *)

MaxInputFiles == 1000

MaxLinkedSectionSize == 100 * 1024 * 1024

RECURSIVE MergeFrom(_, _, _)
\* the first loop of mergeSections from section i on: sectionMap holds for
\* each name the index of the section its pointer refers to, and the
\* sections behind the pointers grow
MergeFrom(sections, i, sectionMap) ==
    IF i > Len(sections) THEN [sections |-> sections, sectionMap |-> sectionMap]
    ELSE IF sections[i].Name \in DOMAIN sectionMap
    THEN MergeFrom([sections EXCEPT
                        ![sectionMap[sections[i].Name]].Data = @ \o sections[i].Data,
                        ![sectionMap[sections[i].Name]].Size = AddSizes(@, sections[i].Size)],
                   i + 1, sectionMap)
    ELSE MergeFrom(sections, i + 1, MapPut(sectionMap, sections[i].Name, i))

\* mergeSections(sections), its second loop ranging over the map in order
mergeSections(sections, order) ==
    [k \in 1..Len(order) |->
        MergeFrom(sections, 1, EmptyMap).sections[MergeFrom(sections, 1, EmptyMap).sectionMap[order[k]]]]

RECURSIVE findEntryPoint(_, _)
\* findEntryPoint(objects), from object k on
findEntryPoint(objects, k) ==
    IF k > Len(objects) THEN 0
    ELSE IF objects[k].Entry # 0 THEN objects[k].Entry
    ELSE findEntryPoint(objects, k + 1)

\* createELFHeader(elfFile)
createELFHeader(elfFile) ==
    <<127, 69, 76, 70, 2, 1, 1, 0>> \o Zeros(8)
    \o Put16("LE", 2) \o Put16("LE", 62) \o Put32("LE", 1)
    \o Put64("LE", elfFile.Entry) \o Put64("LE", 64)
    \o Put64("LE", 64 + Len(elfFile.Sections) * 64)
    \o Put32("LE", 0) \o Put16("LE", 64) \o Put16("LE", 56) \o Put16("LE", 1)
    \o Put16("LE", 64) \o Put16("LE", Len(elfFile.Sections) % 65536) \o Put16("LE", 0)

RECURSIVE WriteSectionsFrom(_, _, _)
\* "Write sections": the bytes written from section k on after written, and
\* the error that ends the loop
WriteSectionsFrom(sections, k, written) ==
    IF k > Len(sections) THEN [err |-> "", bytes |-> written]
    ELSE IF Len(sections[k].Data) > MaxLinkedSectionSize
    THEN [err |-> "section too large", bytes |-> written]
    ELSE WriteSectionsFrom(sections, k + 1, written \o sections[k].Data)

\* writeLinkedELF(filename, elfFile) on the files
writeLinkedELF(files, filename, elfFile) ==
    [err |-> WriteSectionsFrom(elfFile.Sections, 1, createELFHeader(elfFile)).err,
     files |-> WithFile(files, filename,
                    WriteSectionsFrom(elfFile.Sections, 1, createELFHeader(elfFile)).bytes)]

RECURSIVE ParseInputsFrom(_, _, _, _)
\* "Parse all input files" from file k on, objects being those parsed so far
ParseInputsFrom(files, inputFiles, k, objects) ==
    IF k > Len(inputFiles) THEN [err |-> "", file |-> "", objects |-> objects]
    ELSE IF inputFiles[k] \notin DOMAIN files
    THEN [err |-> "failed to open", file |-> inputFiles[k], objects |-> objects]
    ELSE IF ParseELF(files[inputFiles[k]]).err # ""
    THEN [err |-> "failed to parse", file |-> inputFiles[k], objects |-> objects]
    ELSE ParseInputsFrom(files, inputFiles, k + 1,
                         Append(objects, ParseELF(files[inputFiles[k]]).elf[1]))

\* allSymbols and allSections: the symbols and the sections of the objects
AllSymbols(objects) == Flatten([k \in 1..Len(objects) |-> objects[k].Symbols.elems])

AllSections(objects) == Flatten([k \in 1..Len(objects) |-> objects[k].Sections])

\* "Create output ELF" for the orders the two maps are ranged over in
OutputELF(objects, symbolOrder, sectionOrder) ==
    [Class |-> objects[1].Class, Data |-> objects[1].Data, Version |-> 1,
     OSABI |-> objects[1].OSABI, Type |-> "ET_EXEC", Machine |-> objects[1].Machine,
     Entry |-> findEntryPoint(objects, 1),
     Sections |-> mergeSections(AllSections(objects), sectionOrder),
     Symbols |-> resolveSymbols(AllSymbols(objects), symbolOrder)]

\* what linkFiles leaves: the error, the file it names, the output model and
\* the files
LinkResult(err, file, elfFile, files) ==
    [err |-> err, file |-> file, elf |-> elfFile, files |-> files]

\* linkFiles with the output file created before the inputs are read
LinkOutcomesOutputFirst(files, inputFiles, outputFile) ==
    LET parsed == ParseInputsFrom(files, inputFiles, 1, <<>>)
    IN  {LinkResult(IF parsed.err # "" THEN parsed.err ELSE "panic: index out of range",
                    parsed.file, <<>>, WithFile(files, outputFile, <<>>))}

\* linkFiles(inputFiles, outputFile) on the files: its outcomes, one for
\* each pair of orders the two maps may be ranged over in
LinkOutcomes(files, inputFiles, outputFile) ==
    LET parsed == ParseInputsFrom(files, inputFiles, 1, <<>>)
    IN  IF Len(inputFiles) > MaxInputFiles
        THEN {LinkResult("too many input files", "", <<>>, files)}
        ELSE IF parsed.err # "" THEN {LinkResult(parsed.err, parsed.file, <<>>, files)}
        ELSE IF Len(parsed.objects) = 0
        THEN {LinkResult("panic: index out of range", "", <<>>, files)}
        ELSE {LinkResult(writeLinkedELF(files, outputFile,
                                        OutputELF(parsed.objects, symbolOrder, sectionOrder)).err,
                         "", <<OutputELF(parsed.objects, symbolOrder, sectionOrder)>>,
                         writeLinkedELF(files, outputFile,
                                        OutputELF(parsed.objects, symbolOrder, sectionOrder)).files) :
                symbolOrder \in VisitOrders(DOMAIN ResolveFrom(AllSymbols(parsed.objects), 1, EmptyMap)),
                sectionOrder \in VisitOrders(DOMAIN MergeFrom(AllSections(parsed.objects), 1, EmptyMap).sectionMap)}

\* the object files linked: after the null section and .shstrtab at most one
\* section, .text or .data, of 10 or 20 bytes
LinkedObjects ==
    UNION {[1..n -> [name : {<<46, 116, 101, 120, 116>>, <<46, 100, 97, 116, 97>>}, size : {10, 20}]] : n \in 0..1}

\* what is at b.o: an object file, bytes that are no ELF file, or nothing
OtherInputs == {"object", "text", "missing"}

\* the input files are at a.o and b.o (c.o is missing); out.o exists or not
InputsOnDiskCall ==
    /\ op = "init"
    /\ \E first \in LinkedObjects, second \in LinkedObjects, other \in OtherInputs,
          present \in BOOLEAN :
        /\ op' = "inputsOnDisk"
        /\ input' = [named |-> <<first, second>>, other |-> other]
        /\ disk' =
            LET a == WithFile(NoFiles, "a.o", NamedFile(first))
                b == CASE other = "object" -> WithFile(a, "b.o", NamedFile(second))
                       [] other = "text" -> WithFile(a, "b.o", <<104, 105, 10>>)
                       [] OTHER -> a
            IN  IF present THEN WithFile(b, "out.o", <<111, 108, 100>>) ELSE b
        /\ UNCHANGED <<ret, arFile, arWritten, arRead>>

LinkedInputLists == {<<>>, <<"a.o">>, <<"a.o", "b.o">>, <<"b.o", "a.o">>, <<"c.o", "a.o">>}

LinkFilesOn(inputFiles, outputFile, outcome) ==
    /\ op' = "linkFiles"
    /\ input' = [named |-> input.named, other |-> input.other, inputFiles |-> inputFiles,
                 outputFile |-> outputFile]
    /\ ret' = [err |-> outcome.err, file |-> outcome.file, elf |-> outcome.elf]
    /\ disk' = outcome.files
    /\ UNCHANGED <<arFile, arWritten, arRead>>

LinkFilesCall ==
    /\ op = "inputsOnDisk"
    /\ \E inputFiles \in LinkedInputLists :
        \E outcome \in LinkOutcomes(disk, inputFiles, "out.o") :
            LinkFilesOn(inputFiles, "out.o", outcome)

NextLink ==
    \/ InputsOnDiskCall
    \/ LinkFilesCall

SpecLink == Init /\ [][NextLink]_vars

----------------------------------------------------------------------------
(* as: assembly source to object model (the second file of 03_nm.go)       *)

MaxLineLen == 10000

\* the bytes strings.TrimSpace and strings.Fields take for white space
IsSpace(b) == b \in {9, 10, 11, 12, 13, 32}

RECURSIVE SplitAt(_, _, _)
\* strings.Split(str, sep) for a one-byte sep: the pieces after those in
\* pieces, piece being the piece begun
SplitAt(str, sep, piece) ==
    IF str = <<>> THEN <<piece>>
    ELSE IF Head(str) = sep THEN <<piece>> \o SplitAt(Tail(str), sep, <<>>)
    ELSE SplitAt(Tail(str), sep, Append(piece, Head(str)))

RECURSIVE TrimSpaceLeft(_)
TrimSpaceLeft(str) ==
    IF str # <<>> /\ IsSpace(Head(str)) THEN TrimSpaceLeft(Tail(str)) ELSE str

RECURSIVE TrimSpaceRight(_)
TrimSpaceRight(str) ==
    IF str # <<>> /\ IsSpace(str[Len(str)])
    THEN TrimSpaceRight(SubSeq(str, 1, Len(str) - 1)) ELSE str

\* strings.TrimSpace(str)
TrimSpace(str) == TrimSpaceRight(TrimSpaceLeft(str))

\* strings.Index(str, sep) for a one-byte sep, from 0; -1 when it is absent
IndexByte(str, sep) ==
    IF \E i \in 1..Len(str) : str[i] = sep
    THEN (CHOOSE i \in 1..Len(str) : str[i] = sep /\ \A j \in 1..(i - 1) : str[j] # sep) - 1
    ELSE -1

RECURSIVE FieldsFrom(_, _)
\* strings.Fields(str): the maximal runs of bytes that are no white space
FieldsFrom(str, field) ==
    IF str = <<>> THEN (IF field = <<>> THEN <<>> ELSE <<field>>)
    ELSE IF IsSpace(Head(str))
    THEN (IF field = <<>> THEN <<>> ELSE <<field>>) \o FieldsFrom(Tail(str), <<>>)
    ELSE FieldsFrom(Tail(str), Append(field, Head(str)))

Fields(str) == FieldsFrom(str, <<>>)

\* the body of the loop of parseAssembly for one line: the instructions it
\* appends, none or one
ParseLine(rawLine) ==
    LET line == TrimSpace(rawLine)
        idx == IndexByte(line, 58)
        label == IF idx # -1 THEN TrimSpace(SubSeq(line, 1, idx)) ELSE <<>>
        rest == IF idx # -1 THEN TrimSpace(SubSeq(line, idx + 2, Len(line))) ELSE line
        parts == Fields(rest)
    IN  IF line = <<>> \/ Head(line) = 35 \/ Head(line) = 59 THEN <<>>
        ELSE IF Len(line) > MaxLineLen THEN <<>>
        ELSE IF Len(parts) = 0 THEN <<>>
        ELSE <<[Opcode |-> parts[1], Operands |-> Tail(parts), Label |-> label]>>

\* parseAssembly(source)
parseAssembly(source) ==
    Flatten([k \in 1..Len(SplitAt(source, 10, <<>>)) |-> ParseLine(SplitAt(source, 10, <<>>)[k])])

\* the bytes generateCode appends for one instruction
EncodeInstruction(inst) == IF inst.Opcode = <<114, 101, 116>> THEN <<195>> ELSE <<144>>

\* generateCode(instructions)
generateCode(instructions) ==
    Flatten([i \in 1..Len(instructions) |-> EncodeInstruction(instructions[i])])

\* "Value: uint64(i * 4)" for instruction i, counted from 0
ValueAt(i) == i * 4

RECURSIVE SymbolsFrom(_, _)
\* the loop of generateSymbols from instruction i on, counted from 1
SymbolsFrom(instructions, i) ==
    IF i > Len(instructions) THEN <<>>
    ELSE (IF instructions[i].Label # <<>>
          THEN <<[Symbol EXCEPT !.Name = instructions[i].Label, !.Value = ValueAt(i - 1),
                                !.Size = 0, !.Info = 2, !.Type = "STT_FUNC",
                                !.Binding = "STB_LOCAL"]>>
          ELSE <<>>) \o SymbolsFrom(instructions, i + 1)

\* generateSymbols(instructions)
generateSymbols(instructions) == SymbolsFrom(instructions, 1)

\* generateObjectFile(instructions): the .text section and the symbols
generateObjectFile(instructions) ==
    [Class |-> "ELF64", Data |-> "Little Endian", Version |-> 1, OSABI |-> "ELFOSABI_LINUX",
     Type |-> "ET_REL", Machine |-> "EM_X86_64", Entry |-> 0,
     Sections |-> <<[Name |-> <<46, 116, 101, 120, 116>>, Type |-> 1, Flags |-> 6, Addr |-> 0, Offset |-> 0,
                     Size |-> Len(instructions) * 4, Data |-> generateCode(instructions)]>>,
     Symbols |-> generateSymbols(instructions)]

MaxSourceLen == 5

\* the bytes of the sources: a, ':', ' ', '#' and the line feed
SourceBytes == {97, 58, 32, 35, 10}

\* every source of up to MaxSourceLen of these bytes, and "nop\nfoo: ret\n"
Sources ==
    UNION {[1..n -> SourceBytes] : n \in 0..MaxSourceLen}
    \cup {<<110, 111, 112, 10, 102, 111, 111, 58, 32, 114, 101, 116, 10>>}

AssembleOn(source) ==
    /\ op' = "assemble"
    /\ input' = [source |-> source]
    /\ ret' = [instructions |-> parseAssembly(source),
               object |-> generateObjectFile(parseAssembly(source))]
    /\ UNCHANGED <<arFile, arWritten, arRead, disk>>

AssembleCall == op = "init" /\ \E source \in Sources : AssembleOn(source)

NextAs == AssembleCall

SpecAs == Init /\ [][NextAs]_vars

----------------------------------------------------------------------------
(* ar r and ar d: members replaced in and deleted from an archive          *)
(* (06_ar.go); arFile = <<>> stands for no archive file                    *)

MaxFileNameLen == 255

RECURSIVE PutMembers(_, _, _)
\* "members[m.Header.Name] = m" for the members from i on
PutMembers(map, members, i) ==
    IF i > Len(members) THEN map
    ELSE PutMembers(MapPut(map, members[i].Header.Name, members[i]), members, i + 1)

\* the members map of createArchive after "Read existing archive if it
\* exists": empty when there is no archive or readArchive fails
ExistingMembers(archive) ==
    IF archive = <<>> \/ readArchive(archive).err # "" THEN EmptyMap
    ELSE PutMembers(EmptyMap, readArchive(archive).members, 1)

RECURSIVE AddFiles(_, _, _)
\* "Add or replace files" from file i on; files[i] is the name of a file and
\* the bytes it holds; <<>> when the loop returns an error
AddFiles(map, files, i) ==
    IF i > Len(files) THEN <<map>>
    ELSE IF Len(files[i].name) > MaxFileNameLen THEN <<>>
    ELSE IF Len(files[i].data) > MaxMemberSize THEN <<>>
    ELSE AddFiles(MapPut(map, files[i].name, NewMember(files[i].name, files[i].data)),
                  files, i + 1)

\* the archive files writeArchive may write for a map: one for each order
\* its range loop may take
WrittenArchives(map) ==
    {writeArchive([k \in 1..Len(order) |-> map[order[k]]]) : order \in VisitOrders(DOMAIN map)}

\* createArchive(archiveName, files) on the archive file: its outcomes
createArchive(archive, files) ==
    IF AddFiles(ExistingMembers(archive), files, 1) = <<>>
    THEN {[err |-> "failed", file |-> archive]}
    ELSE {[err |-> "", file |-> file] :
            file \in WrittenArchives(AddFiles(ExistingMembers(archive), files, 1)[1])}

RECURSIVE KeepMembers(_, _, _, _)
\* "Filter out deleted members" from member i on
KeepMembers(map, members, names, i) ==
    IF i > Len(members) THEN map
    ELSE KeepMembers(IF members[i].Header.Name \in names THEN map
                     ELSE MapPut(map, members[i].Header.Name, members[i]),
                     members, names, i + 1)

\* deleteFromArchive(archiveName, files) on the archive file: its outcomes
deleteFromArchive(archive, names) ==
    IF archive = <<>> THEN {[err |-> "no such file", file |-> archive]}
    ELSE IF readArchive(archive).err # "" THEN {[err |-> readArchive(archive).err, file |-> archive]}
    ELSE {[err |-> "", file |-> file] :
            file \in WrittenArchives(KeepMembers(EmptyMap, readArchive(archive).members, names, 1))}

MaxArOps == 2

\* the file lists of an operation: one or two of the file names
FileLists ==
    {<<name>> : name \in MemberNames}
    \cup {pair \in MemberNames \X MemberNames : pair[1] # pair[2]}

\* what the files hold when they are added: "`" or "\n`", by position
FilePayloads == {<<<<96>>, <<10, 96>>>>, <<<<10, 96>>, <<96>>>>}

CreateArchiveCall ==
    /\ op \in {"init", "ar"}
    /\ Len(arWritten) < MaxArOps
    /\ \E names \in FileLists, payloads \in FilePayloads :
        \E outcome \in createArchive(arFile,
                        [i \in 1..Len(names) |-> [name |-> names[i], data |-> payloads[i]]]) :
            /\ op' = "ar"
            /\ input' = [operation |-> "r", files |-> names]
            /\ ret' = [err |-> outcome.err]
            /\ arFile' = outcome.file
            /\ arWritten' = Append(arWritten, "r")
            /\ UNCHANGED <<arRead, disk>>

DeleteFromArchiveCall ==
    /\ op = "ar"
    /\ Len(arWritten) < MaxArOps
    /\ \E names \in FileLists :
        \E outcome \in deleteFromArchive(arFile, {names[i] : i \in 1..Len(names)}) :
            /\ op' = "ar"
            /\ input' = [operation |-> "d", files |-> names]
            /\ ret' = [err |-> outcome.err]
            /\ arFile' = outcome.file
            /\ arWritten' = Append(arWritten, "d")
            /\ UNCHANGED <<arRead, disk>>

NextArOps ==
    \/ CreateArchiveCall
    \/ DeleteFromArchiveCall

SpecArOps == Init /\ [][NextArOps]_vars

----------------------------------------------------------------------------
(* Claims about the archive codec                                          *)

\* C10: writeArchive followed by readArchive returns the members written,
\* with identical names, sizes and payload bytes, for odd-sized and
\* even-sized payloads alike.
C10_ArchiveRoundTrip ==
    op = "readArchive" =>
        /\ arRead.err = ""
        /\ Len(arRead.members) = Len(arWritten)
        /\ \A i \in 1..Len(arWritten) :
            /\ arRead.members[i].Header.Name = arWritten[i].Header.Name
            /\ arRead.members[i].Header.Size = arWritten[i].Header.Size
            /\ arRead.members[i].Data = arWritten[i].Data

\* C11: readArchive returns a failure and no member list, never a shortened
\* list, when a member header declares a negative size, a size above
\* 100 MB, or more payload bytes than remain in the file.
C11_BadSizeAbortsRead ==
    (op = "readDamaged" /\ input.damage \in {"negative", "huge", "overrun", "cut"}) =>
        (arRead.err # "" /\ arRead.members = <<>>)

\* C11 witness: the second member declares more bytes than remain, and the
\* read has failed as a whole after the first member was read
C11_Witness ==
    /\ op = "readDamaged"
    /\ input.damage = "overrun"
    /\ input.victim = 2
    /\ arRead.err = "failed to read member data"
    /\ arRead.members = <<>>

\* C12: readArchive fails on a corrupt member header, one whose size field is
\* no decimal number or whose terminator is not the header terminator; it
\* does not accept it as a member.
C12_CorruptHeaderFails ==
    (op = "readDamaged" /\ input.damage \in {"notnumber", "blank", "terminator"}) =>
        arRead.err # ""

RECURSIVE LaidOutFrom(_, _, _, _)
\* from offset pos on, file holds the members k, k+1, ... and nothing else:
\* each header at an even offset, with the member's size as its size field,
\* followed by the payload and, for an odd size only, by one pad byte
LaidOutFrom(file, pos, members, k) ==
    IF k > Len(members) THEN pos = Len(file)
    ELSE /\ pos % 2 = 0
         /\ pos + 60 + Len(members[k].Data) <= Len(file)
         /\ Slice(file, pos, pos + 16) = padString(members[k].Header.Name, 16)
         /\ Slice(file, pos + 48, pos + 58)
                = padString(FormatDecimal(Len(members[k].Data)), 10)
         /\ Slice(file, pos + 58, pos + 60) = <<96, 10>>
         /\ Slice(file, pos + 60, pos + 60 + Len(members[k].Data)) = members[k].Data
         /\ LaidOutFrom(file, pos + 60 + Len(members[k].Data) + (Len(members[k].Data) % 2),
                        members, k + 1)

\* C13: in every file writeArchive produces, each payload on disk is as long
\* as the size its header declares, an odd-sized payload is followed by
\* exactly one pad byte and an even-sized one by none, and every member
\* header starts at an even file offset.
C13_PayloadSizeAndPadding ==
    op = "writeArchive" =>
        /\ Slice(arFile, 0, 8) = ArMagic
        /\ LaidOutFrom(arFile, 8, arWritten, 1)
        /\ \A k \in 1..Len(arWritten) : arWritten[k].Header.Size = Len(arWritten[k].Data)

\* C13 witness: an archive written with an odd-sized member before another
C13_Witness ==
    /\ op = "writeArchive"
    /\ Len(arWritten) = 2
    /\ Len(arWritten[1].Data) % 2 = 1
    /\ Len(arFile) = 8 + 60 + Len(arWritten[1].Data) + 1 + 60 + Len(arWritten[2].Data)
                       + (Len(arWritten[2].Data) % 2)

----------------------------------------------------------------------------
(* Claims about ranlib                                                     *)

\* the names of the symbols of the object file data, as its symbol table
\* holds them
SymbolNamesIn(data) ==
    UNION {ObjectSymbolNames(d) : d \in {o \in Objects : File(o) = data}}

\* the (symbol name, member name) pairs of the members that are objects
SymbolsOfMembers(members) ==
    UNION {{<<name, members[i].Header.Name>> : name \in SymbolNamesIn(members[i].Data)} :
           i \in 1..Len(members)}

\* C14: after generateIndex the index holds one (symbol name, member name)
\* entry for each symbol of each member whose payload begins with the ELF
\* magic, as parsing the member gives them, and no entry for another member.
C14_IndexHoldsSymbolsOfObjects ==
    (op = "generateIndex" /\ ret.err = "" /\ ~input.cut) =>
        /\ {<<ret.symbols[i].Name, ret.symbols[i].Member>> : i \in 1..Len(ret.symbols)}
                = SymbolsOfMembers(ret.members)
        /\ SubSeq(ret.symbolTable.Data, 1, 4)
                = CountBytes(Cardinality(SymbolsOfMembers(ret.members)))

RECURSIVE NamesOnDisk(_, _)
\* the member names of an archive file from offset pos on, each header
\* followed by as many payload bytes as its size field says and a pad
\* byte after an odd size
NamesOnDisk(file, pos) ==
    IF pos + 60 > Len(file) THEN <<>>
    ELSE <<trimSpace(Slice(file, pos, pos + 16))>>
         \o NamesOnDisk(file,
                pos + 60 + ParseIntOrZero(trimSpace(Slice(file, pos + 48, pos + 58)))
                    + (ParseIntOrZero(trimSpace(Slice(file, pos + 48, pos + 58))) % 2))

\* how many members of that name the archive file holds
CountOnDisk(file, name) ==
    Cardinality({i \in 1..Len(NamesOnDisk(file, 8)) : NamesOnDisk(file, 8)[i] = name})

\* C15: after generateIndex on a readable archive the rewritten archive
\* holds exactly one member named "/" and none named "__.SYMDEF", also
\* after repeated runs.
C15_ExactlyOneIndexMember ==
    (op = "generateIndex" /\ ret.err = "") =>
        /\ CountOnDisk(arFile, <<47>>) = 1
        /\ CountOnDisk(arFile, SymdefName) = 0

\* C15 witness: generateIndex has run on an archive that held the index of
\* an earlier run and a member of its own beside it
C15_Witness ==
    /\ op = "generateIndex"
    /\ ret.err = ""
    /\ \E i \in 1..Len(ret.members) :
            /\ ret.members[i].Header.Name = <<47>>
            /\ ret.members[i].Data = CountBytes(1) \o <<4, 109, 97, 105, 110, 0, 0, 0>>
    /\ \E i \in 1..Len(ret.members) : ret.members[i].Header.Name = <<97>>
    /\ CountOnDisk(arFile, <<47>>) = 1

\* C15 second witness: an archive that held "__.SYMDEF" and "/" was rewritten
C15_OldIndexWitness ==
    /\ op = "generateIndex"
    /\ ret.err = ""
    /\ \E i, j \in 1..Len(ret.members) :
            /\ ret.members[i].Header.Name = SymdefName
            /\ ret.members[j].Header.Name = <<47>>

----------------------------------------------------------------------------
(* Claims about file names                                                 *)

\* C16: containsPathTraversal is true for names containing "../" or "..\"
\* and for absolute paths starting with "/"; it is false for a plain file
\* name and for a relative path with a subdirectory component and no "..".
C16_PathTraversalVerdicts ==
    op = "containsPathTraversal" =>
        /\ (\/ Contains(input.path, <<46, 46, 47>>)
            \/ Contains(input.path, <<46, 46, 92>>)
            \/ (input.path # <<>> /\ input.path[1] = 47)) => ret.result
        /\ (~Contains(input.path, <<47>>) /\ ~Contains(input.path, <<92>>)) => ~ret.result
        /\ (/\ input.path # <<>>
            /\ input.path[1] \notin {47, 92}
            /\ Contains(input.path, <<47>>)
            /\ ~Contains(input.path, <<92>>)
            /\ ~Contains(input.path, <<46, 46>>)) => ~ret.result

----------------------------------------------------------------------------
(* Claims about the symbol lister                                          *)

\* how often the symbol sym occurs in the sequence symbols
Occurrences(symbols, sym) == Cardinality({i \in 1..Len(symbols) : symbols[i] = sym})

\* C17: listSymbols prints exactly one line per symbol with a non-empty
\* name, in non-decreasing order of symbol value whatever the order of the
\* symbols in the model, and leaves the model's symbol list unchanged.
C17_ListedSortedByValue ==
    op = "listSymbols" =>
        /\ Len(ret.lines) = Len(ret.printed)
        /\ \A sym \in ListedSymbols :
                Occurrences(ret.printed, sym)
                    = IF sym.Name = <<>> THEN 0 ELSE Occurrences(input.elf.Symbols, sym)
        /\ \A i \in 1..Len(ret.lines) : ret.lines[i].name = ret.printed[i].Name
        /\ \A i \in 1..(Len(ret.printed) - 1) :
                ret.printed[i].Value <= ret.printed[i + 1].Value
        /\ ret.elf = input.elf

\* C17 witness: symbols with the values 50, 10, 30 were listed as 10, 30, 50
C17_Witness ==
    /\ op = "listSymbols"
    /\ Len(input.elf.Symbols) = 3
    /\ [i \in 1..3 |-> input.elf.Symbols[i].Value] = <<50, 10, 30>>
    /\ Len(ret.printed) = 3
    /\ [i \in 1..3 |-> ret.printed[i].Value] = <<10, 30, 50>>
    /\ input.elf.Class = "ELF64"
    /\ ret.lines[1].address = "000000000000000a"

----------------------------------------------------------------------------
(* Claims about size and strip                                             *)

RECURSIVE SumOfSizes(_, _, _)
\* the summed sizes of the sections of named, from k on, whose name is in names
SumOfSizes(named, k, names) ==
    IF k > Len(named) THEN 0
    ELSE (IF named[k].name \in names THEN named[k].size ELSE 0)
         + SumOfSizes(named, k + 1, names)

\* C18: showSize reports as decimal total the sum text + data + bss, the
\* summed sizes of the sections named .text/.init/.fini, .data/.rodata/
\* .sdata and .bss/.sbss; a section of another name contributes nothing.
C18_SizeTotalIsSumOfBuckets ==
    op = "showSize" =>
        /\ ret.err = ""
        /\ ret.printed
        /\ ret.text = Decimal7(SumOfSizes(input.named, 1, TextNames))
        /\ ret.data = Decimal7(SumOfSizes(input.named, 1, DataNames))
        /\ ret.bss = Decimal7(SumOfSizes(input.named, 1, BssNames))
        /\ ret.dec = Decimal7(SumOfSizes(input.named, 1, TextNames \cup DataNames \cup BssNames))

\* the names of the sections of the file built from named that carry no
\* debug prefix: the null section, .shstrtab and the others, in file order
KeptNames(named) ==
    <<<<>>, <<46, 115, 104, 115, 116, 114, 116, 97, 98>>>>
    \o SelectSeq([k \in 1..Len(named) |-> named[k].name],
                 LAMBDA name : ~isDebugSection(name))

\* C20: the result of stripFile has an empty symbol list and no section
\* whose name starts with .debug, .zdebug, .comment or .note, and it keeps
\* every other section of the input, in the original order.
C20_StrippedKeepsNonDebug ==
    op = "stripFile" =>
        /\ ret.err = ""
        /\ ret.elf[1].Symbols.len = 0
        /\ [i \in 1..Len(ret.elf[1].Sections) |-> ret.elf[1].Sections[i].Name]
               = KeptNames(input.named)

----------------------------------------------------------------------------
(* Claims about addr2line                                                  *)

\* the sections of the model whose range [Addr, Addr + Size) holds addr
Containing(elfFile, addr) ==
    {i \in 1..Len(elfFile.Sections) : InRangeUnwrapped(elfFile.Sections[i], addr)}

\* the least member of a non-empty set of naturals
First(set) == CHOOSE i \in set : \A j \in set : i <= j

\* C19: for every model and every 64-bit address a, addr2line reports the
\* name of the first section in section order with Addr <= a < Addr + Size,
\* and reports the unknown marker exactly when no section's range holds a.
C19_FirstContainingSection ==
    op = "addrToLine" =>
        /\ (ret.printed = UnknownMarker) <=> (Containing(input.elf, input.addr) = {})
        /\ Containing(input.elf, input.addr) # {} =>
               ret.answer.file
                   = input.elf.Sections[First(Containing(input.elf, input.addr))].Name

----------------------------------------------------------------------------
(* Claims about objcopy, elfedit and the written files                     *)

\* the names the result of copyObject is to keep: the null section,
\* .shstrtab and every section that is neither in the removal list nor a
\* debug section under a strip option
NamesAfterCopy(named, options) ==
    <<<<>>, <<46, 115, 104, 115, 116, 114, 116, 97, 98>>>>
    \o SelectSeq([k \in 1..Len(named) |-> named[k].name],
                 LAMBDA name :
                    /\ ~containsString(options.RemoveSection, name)
                    /\ ~((options.StripAll \/ options.StripDebug) /\ isDebugSection(name)))

\* C21: after copyObject with remove-named-sections no section named in the
\* removal list remains (also when several sections carry the name), and
\* every other section not removed by a strip option is kept in order.
C21_NamedSectionsRemoved ==
    (op = "copyObject" /\ Len(input.options.RemoveSection) > 0) =>
        /\ ret.err = ""
        /\ [i \in 1..Len(ret.elf[1].Sections) |-> ret.elf[1].Sections[i].Name]
               = NamesAfterCopy(input.named, input.options)

\* the values the spec's header-field editor accepts for an option; an
\* option that selects no field accepts none
Whitelist(option) ==
    CASE option = "--output-class" -> {"ELF32", "ELF64"}
      [] option = "--output-data" -> {"Little Endian", "Big Endian"}
      [] option = "--output-osabi" ->
            {"ELFOSABI_NONE", "ELFOSABI_LINUX", "ELFOSABI_FREEBSD", "ELFOSABI_NETBSD",
             "ELFOSABI_OPENBSD", "ELFOSABI_SOLARIS"}
      [] option = "--output-type" -> {"ET_NONE", "ET_REL", "ET_EXEC", "ET_DYN", "ET_CORE"}
      [] OTHER -> {}

\* a call with an unknown option or with a value outside the whitelist
Rejected(call) == Len(call.args) >= 1 /\ call.args[1] \notin Whitelist(call.option)

\* C22: editELF called with a value outside the selected field's whitelist,
\* or with an unknown option, returns an error, leaves Class, Data, OSABI
\* and Type of the model unchanged, creates no backup and writes no file.
C22_InvalidEditRejected ==
    [][(op' = "editELF" /\ Rejected(input')) =>
            /\ ret'.err # ""
            /\ ret'.elf = input'.elf
            /\ ~ret'.printed
            /\ disk' = disk]_vars

C22_Witness ==
    /\ op = "editELF"
    /\ Rejected(input)
    /\ input.option = "--output-type"
    /\ ret.err = "invalid type"
    /\ DOMAIN disk = {"a.o"}

\* bytes that begin with a whole ELF64 header
CompleteELF(bytes) == Len(bytes) >= 64 /\ SubSeq(bytes, 1, 4) = <<127, 69, 76, 70>>

\* C23: at no point during or after a run of a transformer tool, also when
\* the output path equals the input path, does the path of the original
\* hold a truncated or partly written file: it holds the complete original
\* bytes or a complete new ELF file.
C23_OriginalNeverTruncated ==
    op # "init" /\ "original" \in DOMAIN input =>
        /\ "a.o" \in DOMAIN disk
        /\ disk["a.o"] = input.original \/ CompleteELF(disk["a.o"])

\* C24: when a transformer tool returns success, the file it produced is
\* the serialization of the modified model: parsing that file yields the
\* modified header fields (and the section and symbol lists).
C24_FileSerializesModifiedModel ==
    (op = "editELF" /\ ret.err = "") =>
        /\ ParseELF(disk[input.filename]).err = ""
        /\ ParseELF(disk[input.filename]).elf[1].Class = ret.elf.Class
        /\ ParseELF(disk[input.filename]).elf[1].Data = ret.elf.Data
        /\ ParseELF(disk[input.filename]).elf[1].OSABI = ret.elf.OSABI
        /\ ParseELF(disk[input.filename]).elf[1].Type = ret.elf.Type

----------------------------------------------------------------------------
(* Claims about the linker                                                 *)

\* the indices of the input symbols of a name, and of the defined ones
Named(symbols, name) == {i \in 1..Len(symbols) : symbols[i].Name = name}

Defined(symbols, name) == {i \in Named(symbols, name) : symbols[i].Type # "STT_NOTYPE"}

\* C25: resolveSymbols returns exactly one entry per distinct symbol name;
\* if an input symbol of the name has a type other than STT_NOTYPE the entry
\* is the first such symbol in input order, otherwise the first occurrence.
C25_DefinedBeatsUndefined ==
    op = "resolveSymbols" =>
        /\ {ret.resolved[k].Name : k \in 1..Len(ret.resolved)}
               = {input.symbols[i].Name : i \in 1..Len(input.symbols)}
        /\ \A k, l \in 1..Len(ret.resolved) :
                k # l => ret.resolved[k].Name # ret.resolved[l].Name
        /\ \A k \in 1..Len(ret.resolved) :
                ret.resolved[k] =
                    IF Defined(input.symbols, ret.resolved[k].Name) # {}
                    THEN input.symbols[First(Defined(input.symbols, ret.resolved[k].Name))]
                    ELSE input.symbols[First(Named(input.symbols, ret.resolved[k].Name))]

C25_Witness ==
    /\ op = "resolveSymbols"
    /\ Len(input.symbols) = 3
    /\ input.symbols[1].Name = input.symbols[2].Name
    /\ input.symbols[2].Name = input.symbols[3].Name
    /\ input.symbols[1].Type = "STT_NOTYPE"
    /\ input.symbols[2].Type = "STT_FUNC"
    /\ input.symbols[3].Type = "STT_OBJECT"
    /\ ret.resolved = <<input.symbols[2]>>

\* the sections of the inputs of a link, in input order
InputSections(call) ==
    IF call.inputFiles = <<"a.o">> THEN call.named[1]
    ELSE IF call.inputFiles = <<"a.o", "b.o">> THEN call.named[1] \o call.named[2]
    ELSE call.named[2] \o call.named[1]

RECURSIVE SizeOfName(_, _, _)
\* the summed sizes of the sections of a name from section k on
SizeOfName(named, name, k) ==
    IF k > Len(named) THEN 0
    ELSE (IF named[k].name = name THEN named[k].size ELSE 0) + SizeOfName(named, name, k + 1)

\* C26: the linker's merged output has exactly one section per distinct
\* section name, whose Size is the sum of the sizes of all input sections of
\* that name (two .text inputs of 10 and 20 bytes give a 30-byte .text) and
\* whose bytes are the concatenation of those sections' bytes.
C26_SectionsMergedByName ==
    (/\ op = "linkFiles"
     /\ input.other = "object"
     /\ input.inputFiles \in {<<"a.o">>, <<"a.o", "b.o">>, <<"b.o", "a.o">>}) =>
        /\ ret.err = ""
        /\ \A k \in 1..Len(InputSections(input)) :
              \E l \in 1..Len(ret.elf[1].Sections) :
                /\ ret.elf[1].Sections[l].Name = InputSections(input)[k].name
                /\ ret.elf[1].Sections[l].Size
                       = SizeOfName(InputSections(input), InputSections(input)[k].name, 1)
                /\ Len(ret.elf[1].Sections[l].Data) = ret.elf[1].Sections[l].Size
        /\ \A k, l \in 1..Len(ret.elf[1].Sections) :
              k # l => ret.elf[1].Sections[k].Name # ret.elf[1].Sections[l].Name

\* an input that linkFiles cannot open or cannot parse
FailsToOpen(files, path) == path \notin DOMAIN files

FailsToParse(files, path) ==
    path \in DOMAIN files /\ ParseELF(files[path]).err # ""

\* C27: linkFiles creates or writes the output file only after every input
\* has been opened and parsed; if an input fails to open or parse it returns
\* an error naming that file and the output path is not created or modified.
C27_OutputOnlyAfterAllInputsParsed ==
    [][op' = "linkFiles" =>
         /\ disk' # disk =>
                \A k \in 1..Len(input'.inputFiles) :
                    ~FailsToOpen(disk, input'.inputFiles[k])
                    /\ ~FailsToParse(disk, input'.inputFiles[k])
         /\ \A k \in 1..Len(input'.inputFiles) :
                (/\ FailsToOpen(disk, input'.inputFiles[k]) \/ FailsToParse(disk, input'.inputFiles[k])
                 /\ \A j \in 1..(k - 1) :
                        ~FailsToOpen(disk, input'.inputFiles[j])
                        /\ ~FailsToParse(disk, input'.inputFiles[j])) =>
                    /\ ret'.err = (IF FailsToOpen(disk, input'.inputFiles[k])
                                   THEN "failed to open" ELSE "failed to parse")
                    /\ ret'.file = input'.inputFiles[k]
                    /\ disk' = disk]_vars

C27_Witness ==
    /\ op = "linkFiles"
    /\ input.inputFiles = <<"c.o", "a.o">>
    /\ ret.err = "failed to open"
    /\ ret.file = "c.o"
    /\ "out.o" \notin DOMAIN disk

----------------------------------------------------------------------------
(* Claims about the assembler                                              *)

\* the offset, in the bytes of generateCode, of the code of instruction i
OffsetInText(instructions, i) == Len(generateCode(SubSeq(instructions, 1, i - 1)))

\* C28: each label yields a local function symbol whose Value equals the
\* byte offset, within the .text payload produced by generateCode, of the
\* instruction that the label marks.
C28_LabelValueIsByteOffset ==
    op = "assemble" =>
        \A i \in 1..Len(ret.instructions) :
            ret.instructions[i].Label # <<>> =>
                \E k \in 1..Len(ret.object.Symbols) :
                    /\ ret.object.Symbols[k].Name = ret.instructions[i].Label
                    /\ ret.object.Symbols[k].Type = "STT_FUNC"
                    /\ ret.object.Symbols[k].Binding = "STB_LOCAL"
                    /\ ret.object.Symbols[k].Value = OffsetInText(ret.instructions, i)
                    /\ OffsetInText(ret.instructions, i) < Len(ret.object.Sections[1].Data)

----------------------------------------------------------------------------
(* Claims about what the archive tools leave alone                         *)

RECURSIVE MembersOnDisk(_, _)
\* the members of an archive file from offset pos on: the name, the 32
\* bytes of mtime, uid, gid and mode, and the payload the size field spans
MembersOnDisk(file, pos) ==
    IF pos + 60 > Len(file) THEN <<>>
    ELSE <<[name |-> trimSpace(Slice(file, pos, pos + 16)),
            meta |-> Slice(file, pos + 16, pos + 48),
            data |-> Slice(file, pos + 60,
                           Min(Len(file),
                               pos + 60 + ParseIntOrZero(trimSpace(Slice(file, pos + 48, pos + 58)))))]>>
         \o MembersOnDisk(file,
                pos + 60 + ParseIntOrZero(trimSpace(Slice(file, pos + 48, pos + 58)))
                    + (ParseIntOrZero(trimSpace(Slice(file, pos + 48, pos + 58))) % 2))

\* how many members equal to member the archive file holds
CopiesOnDisk(file, member) ==
    Cardinality({i \in 1..Len(MembersOnDisk(file, 8)) : MembersOnDisk(file, 8)[i] = member})

\* C29: generateIndex leaves every non-index member of the archive unchanged:
\* each member present before the run is present after it with the same
\* name, the same mtime, uid, gid and mode, and the same payload, also when
\* two members have the same name.
C29_IndexLeavesMembersUnchanged ==
    (op = "generateIndex" /\ ~input.cut) =>
        \A i \in 1..Len(MembersOnDisk(writeArchive(input.members), 8)) :
            MembersOnDisk(writeArchive(input.members), 8)[i].name \notin {<<47>>, SymdefName} =>
                CopiesOnDisk(arFile, MembersOnDisk(writeArchive(input.members), 8)[i])
                    >= CopiesOnDisk(writeArchive(input.members),
                                    MembersOnDisk(writeArchive(input.members), 8)[i])

\* the members of an archive file by name and payload
PayloadsOnDisk(file) ==
    [i \in 1..Len(MembersOnDisk(file, 8)) |->
        [name |-> MembersOnDisk(file, 8)[i].name, data |-> MembersOnDisk(file, 8)[i].data]]

\* how many members of that name and payload the archive file holds
PayloadCopies(file, member) ==
    Cardinality({i \in 1..Len(PayloadsOnDisk(file)) : PayloadsOnDisk(file)[i] = member})

\* C30: after any sequence of replace (createArchive) and delete
\* (deleteFromArchive) operations every member that existed before an
\* operation and is not named in its file list is still present afterwards
\* with identical payload.
C30_UnnamedMembersKept ==
    [][\A i \in 1..Len(PayloadsOnDisk(arFile)) :
            (\A k \in 1..Len(input'.files) : input'.files[k] # PayloadsOnDisk(arFile)[i].name) =>
                PayloadCopies(arFile', PayloadsOnDisk(arFile)[i])
                    >= PayloadCopies(arFile, PayloadsOnDisk(arFile)[i])]_vars

====
